---- MODULE Spec2Model ----
(***************************************************************************)
(* A model of captionate's styled-text engine (src/main.py): the markup    *)
(* parser parse_html_text and the caption pipeline                         *)
(* _generate_text_and_combined_image_from_background (fit search and       *)
(* renderer).                                                              *)
(*                                                                         *)
(* Text is a sequence of one-character strings; a markup tree is the       *)
(* sequence of nodes BeautifulSoup hands to the walk (soup.children).      *)
(* The specifications share the variables:                                 *)
(*   SpecParse  parse_html_text walking one markup tree;                   *)
(*   Spec       one caption pipeline: parse, fit search, render, return;   *)
(*   SpecColor  rgba_from_string on one string;                            *)
(*   SpecFont   get_font_for_style, one font load after the other;         *)
(*   SpecOverlay  _generate_background_once building the overlay band;     *)
(*   SpecEndpoint  one /caption-image request: caption_image and the       *)
(*                 worker processes of its pool;                           *)
(*   SpecUpload  upload_bytes (src/scripts/dropbox_utils.py), try by try;  *)
(*   SpecVideo   one /generate-video request.                              *)
(***************************************************************************)
EXTENDS Integers, Sequences, FiniteSets, TLC

VARIABLES
    \* ---- parse_html_text (SpecParse) ----
    soup,               \* the parsed markup: the sequence soup.children
    child_idx,          \* position of the loop `for child_node in soup.children`
    logical_lines,      \* list of lines, each a list of <<text, styles>> runs
    active_styles,      \* the set of styles of the tags that are open
    parse_pc,           \* "idle" | "walk" | "done"
    parse_result,       \* what parse_html_text returned
    \* ---- the caption pipeline (Spec) ----
    text_content,       \* the caption markup (a tree, as soup)
    profile,            \* the font metrics the loaded fonts have
    width, height,      \* img.size
    background_height,  \* percent of the image height (background_height * 100)
    margin_horizontal, margin_top, margin_bottom,   \* percentages
    pc,                 \* "idle" | "start" | "search" | "layout" | "render" | "compose" | "returned" | "raised"
    logical_lines_styled,
    font_size_iter,
    best_font_size,
    final_renderable_lines_layout,
    tried,              \* history: the sizes evaluated, with the verdict of each
    drawn,              \* history: the draw.text calls, in order
    underlines,         \* history: the draw.line calls, in order
    lines_drawn,        \* history: the y position of every line visited by the renderer
    line_idx,           \* position of the renderer's loop over the layout
    current_y,          \* the renderer's line position
    result,             \* what the pipeline returned: the text-only and the combined image
    \* ---- rgba_from_string (SpecColor) ----
    rgba_str,           \* the argument, a sequence of characters
    color_pc,           \* "idle" | "call" | "returned" | "raised"
    color_result,       \* the tuple returned
    \* ---- get_font_for_style, load by load (SpecFont) ----
    font_family_name,   \* the argument
    font_styles,        \* the argument: a set of styles
    loadable,           \* the files ImageFont.truetype can open on this host
    font_attempts,      \* history: the paths handed to ImageFont.truetype, in order
    font_pc,            \* "idle" | "requested" | "regular" | "default" | "arial" | "system_arial" | "returned" | "raised"
    font_returned,      \* the path of the font returned
    \* ---- _generate_background_once, row by row (SpecOverlay) ----
    overlay_args,       \* the arguments: size of the image, background_height,
                        \* background_color, text_position, transition_proportion
    overlay,            \* the overlay image: rows of pixels <<r, g, b, a>>, row 0 first
    transition_height_px,
    y_idx,              \* position of the loop over the rows of the transition zone
    overlay_pc,         \* "idle" | "call" | "paint" | "compose" | "returned"
    \* ---- caption_image and its worker processes (SpecEndpoint) ----
    req,                \* the request: texts, and the arguments of the overlay
    endpoint_pc,        \* "idle" | "fetch" | "open" | "build" | "building" | "serialise"
                        \* | "submit" | "gather" | "responded" | "http_400" | "http_500"
    overlay_image,      \* background_data["overlay_image"]
    overlay_image_bytes,
    tasks,              \* the calls of _process_text_and_upload handed to the pool
    response,           \* the body of the answer
    events,             \* history: what the request has done, in order
    \* ---- generate_video, POST /generate-video (SpecVideo) ----
    video_req,          \* the request: save_to_dropbox, audio_dropbox_path given
    video_pc,           \* "idle" | "tempdir" | "client" | "background" | "text_images"
                        \* | "music" | "script" | "upload" | "task_done" | "responded"
                        \* | "http_500"
    video_downloaded,   \* the text images downloaded so far
    video_failure,      \* history: the step of generate_video_from_script that failed
    video_response,     \* the body of the answer
    \* ---- upload_bytes (SpecUpload) ----
    retries,            \* the argument
    attempt,            \* the loop variable
    upload_pc,          \* "idle" | "try" | "sleep" | "returned" | "raised"
    upload_log          \* history: the attempts and the sleeps, in order

parse_vars == <<soup, child_idx, logical_lines, active_styles, parse_pc, parse_result>>
pipe_vars == <<text_content, profile, width, height, background_height,
               margin_horizontal, margin_top, margin_bottom, pc, logical_lines_styled,
               font_size_iter, best_font_size, final_renderable_lines_layout,
               tried, drawn, underlines, lines_drawn, line_idx, current_y, result>>
color_vars == <<rgba_str, color_pc, color_result>>
\* the state of the functions outside the parser and the caption pipeline
font_vars == <<font_family_name, font_styles, loadable, font_attempts, font_pc,
               font_returned>>
overlay_vars == <<overlay_args, overlay, transition_height_px, y_idx, overlay_pc>>
endpoint_vars == <<req, endpoint_pc, overlay_image, overlay_image_bytes, tasks,
                   response, events>>
video_vars == <<video_req, video_pc, video_downloaded, video_failure, video_response>>
upload_vars == <<retries, attempt, upload_pc, upload_log>>
\* the Dropbox side of the service
dropbox_vars == <<video_vars, upload_vars>>
aux_vars == <<color_vars, font_vars, overlay_vars, endpoint_vars, dropbox_vars>>
vars == <<parse_vars, pipe_vars, aux_vars>>

\* the functions that are not running
ColorIdle == rgba_str = <<>> /\ color_pc = "idle" /\ color_result = <<>>
FontIdle ==
    /\ font_family_name = "" /\ font_styles = {} /\ loadable = {}
    /\ font_attempts = <<>> /\ font_pc = "idle" /\ font_returned = <<>>
OverlayIdle ==
    /\ overlay_args = <<>> /\ overlay = <<>> /\ transition_height_px = 0
    /\ y_idx = 0 /\ overlay_pc = "idle"
EndpointIdle ==
    /\ req = <<>> /\ endpoint_pc = "idle" /\ overlay_image = <<>>
    /\ overlay_image_bytes = <<>> /\ tasks = <<>> /\ response = <<>> /\ events = <<>>
VideoIdle ==
    /\ video_req = <<>> /\ video_pc = "idle" /\ video_downloaded = 0
    /\ video_failure = "none"
    /\ video_response = <<>>
UploadIdle == retries = 0 /\ attempt = 0 /\ upload_pc = "idle" /\ upload_log = <<>>
DropboxIdle == VideoIdle /\ UploadIdle
AuxIdle == ColorIdle /\ FontIdle /\ OverlayIdle /\ EndpointIdle /\ DropboxIdle

----------------------------------------------------------------------------
(* Bounds of the model *)

\* nodes (tags and text nodes) of a markup tree walked by SpecParse
MaxNodes == 3
\* image width and height in pixels, next to one box beyond the size cap
MaxWidth == 4
MaxHeight == 4
\* the sizes at which the claims about all sizes probe the per-size evaluation
MaxProbeSize == 4

----------------------------------------------------------------------------
(* Text *)

Chars == {"a", " "}

isspace_char(c) == c = " "

\* str.isspace(): non-empty and every character is whitespace
isspace(s) == Len(s) > 0 /\ \A k \in 1..Len(s) : isspace_char(s[k])

\* bool(s.strip()): some character is not whitespace
strip_nonempty(s) == \E k \in 1..Len(s) : ~isspace_char(s[k])

----------------------------------------------------------------------------
(* Markup trees: what BeautifulSoup(text, "html.parser") yields *)

TextNode(s) == [kind |-> "NavigableString", name |-> "", content |-> s, children |-> <<>>]
TagNode(n, c) == [kind |-> "Tag", name |-> n, content |-> <<>>, children |-> c]
Br == TagNode("br", <<>>)

\* the text nodes of SpecParse: a word and a whitespace run
ParseTexts == {<<"a">>, <<" ">>}
\* b, i, u; an unrecognized tag; and the two names the walk excludes
StyleTags == {"b", "i", "u"}
OtherTags == {"span", "html", "body"}

IsText(node) == node.kind = "NavigableString"

\* sibling sequences with n nodes in all, no two text nodes adjacent (adjacent
\* character data is one NavigableString)
Forests[n \in 0..(MaxNodes + 1)] ==
    IF n = 0 THEN {<<>>}
    ELSE LET rest == Forests[n - 1]
             leaves == {<<TextNode(s)>> \o f : s \in ParseTexts,
                          f \in {g \in rest : g = <<>> \/ ~IsText(g[1])}}
                       \cup {<<Br>> \o f : f \in rest}
             tags == UNION {UNION {{<<TagNode(t, c)>> \o f :
                                      t \in StyleTags \cup OtherTags,
                                      c \in Forests[k], f \in Forests[n - 1 - k]}}
                            : k \in 0..(n - 1)}
         IN leaves \cup tags

Markups == UNION {Forests[n] : n \in 0..MaxNodes}

----------------------------------------------------------------------------
(* parse_html_text *)

style_map == [b |-> "bold", i |-> "italic", u |-> "underline"]

\* logical_lines[-1].append((content, active_styles.copy()))
append_run(lines, content, styles) ==
    [lines EXCEPT ![Len(lines)] = Append(@, <<content, styles>>)]

\* the mutant of close_tag: the closing tag removes its style whoever added it
close_tag_always(styles, style, original_style_present) == styles \ {style}

\* if not original_style_present: active_styles.remove(style)
close_tag(styles, style, original_style_present) ==
    IF ~original_style_present THEN styles \ {style} ELSE styles

\* if not original_style_present: active_styles.add(style)
open_tag(styles, style, original_style_present) ==
    IF ~original_style_present THEN styles \cup {style} ELSE styles

\* elif node.name and node.name not in ['html', 'body']
descends(name) == name # "" /\ name \notin {"html", "body"}

RECURSIVE process_node(_, _)
RECURSIVE process_children(_, _, _)

\* st = [lines, styles]: the nonlocal logical_lines and active_styles
process_node(node, st) ==
    IF node.kind = "NavigableString"
    THEN IF node.content # <<>>
         THEN [st EXCEPT !.lines = append_run(@, node.content, st.styles)]
         ELSE st
    ELSE IF node.name = "br"
    THEN [st EXCEPT !.lines = Append(@, <<>>)]
    ELSE IF node.name \in {"b", "i", "u"}
    THEN LET style == style_map[node.name]
             original_style_present == style \in st.styles
             entered == [st EXCEPT !.styles = open_tag(@, style, original_style_present)]
             walked == process_children(node.children, 1, entered)
         IN [walked EXCEPT !.styles = close_tag(@, style, original_style_present)]
    ELSE IF descends(node.name)
    THEN process_children(node.children, 1, st)
    ELSE st

\* for child in node.children: process_node(child)
process_children(nodes, k, st) ==
    IF k > Len(nodes) THEN st
    ELSE process_children(nodes, k + 1, process_node(nodes[k], st))

\* the mutant of pop_trailing: the empty last line is kept
pop_trailing_never(lines) == lines

\* if len(logical_lines) > 1 and not logical_lines[-1]: logical_lines.pop()
pop_trailing(lines) ==
    IF Len(lines) > 1 /\ lines[Len(lines)] = <<>>
    THEN SubSeq(lines, 1, Len(lines) - 1)
    ELSE lines

\* the mutant of any_text: a whitespace-only run counts as text
any_text_unstripped(lines) ==
    \E l \in 1..Len(lines) : \E r \in 1..Len(lines[l]) : lines[l][r][1] # <<>>

\* any(seg[0].strip() for line in logical_lines for seg in line)
any_text(lines) ==
    \E l \in 1..Len(lines) : \E r \in 1..Len(lines[l]) : strip_nonempty(lines[l][r][1])

\* lines 252-257: the post-processing of the walked lines
post_process(lines) ==
    LET popped == pop_trailing(lines)
    IN IF ~any_text(popped) THEN <<<<>>>> ELSE popped

parse_html_text(nodes) ==
    post_process(process_children(nodes, 1, [lines |-> <<<<>>>>, styles |-> {}]).lines)

----------------------------------------------------------------------------
(* SpecParse: parse_html_text on one markup tree *)

PipeIdle ==
    /\ text_content = <<>> /\ profile = "none"
    /\ width = 1 /\ height = 1 /\ background_height = 0
    /\ margin_horizontal = 0 /\ margin_top = 0 /\ margin_bottom = 0
    /\ pc = "idle" /\ logical_lines_styled = <<>>
    /\ font_size_iter = 0 /\ best_font_size = 0
    /\ final_renderable_lines_layout = <<>>
    /\ tried = <<>> /\ drawn = <<>> /\ underlines = <<>> /\ lines_drawn = <<>>
    /\ line_idx = 0 /\ current_y = 0 /\ result = <<>>

InitParse ==
    /\ soup \in Markups
    /\ child_idx = 1
    /\ logical_lines = <<<<>>>>
    /\ active_styles = {}
    /\ parse_pc = "walk"
    /\ parse_result = <<>>
    /\ PipeIdle
    /\ AuxIdle

\* for child_node in soup.children: process_node(child_node)
ProcessChild ==
    /\ parse_pc = "walk"
    /\ child_idx <= Len(soup)
    /\ LET st == process_node(soup[child_idx],
                              [lines |-> logical_lines, styles |-> active_styles])
       IN /\ logical_lines' = st.lines
          /\ active_styles' = st.styles
    /\ child_idx' = child_idx + 1
    /\ UNCHANGED <<soup, parse_pc, parse_result, pipe_vars, aux_vars>>

\* lines 252-257: the loop is over, post-process and return
PostProcess ==
    /\ parse_pc = "walk"
    /\ child_idx > Len(soup)
    /\ parse_result' = post_process(logical_lines)
    /\ parse_pc' = "done"
    /\ UNCHANGED <<soup, child_idx, logical_lines, active_styles, pipe_vars, aux_vars>>

NextParse == ProcessChild \/ PostProcess

SpecParse == InitParse /\ [][NextParse]_vars

----------------------------------------------------------------------------
(* Fonts: get_font_for_style and the metrics of the face it loads *)

\* the cap on the trial size: max(1, min(bg_height, width, 200))
MaxFontSize == 200

\* The metrics the font files have. Every profile is nondecreasing in the size.
\*   scalable    every metric grows with the size, bold is wider, one
\*               ascent and descent for all faces
\*   fixed       a face whose metrics do not follow the size
\*   hinted      advances rounded to whole pixels: a space is 0 wide at size 1
\*   mixed       the bold face comes from another file than the regular one, with
\*               its own vertical metrics
\*   unloadable  no font file can be opened: get_font_for_style raises
Profiles == {"scalable", "fixed", "hinted", "mixed", "unloadable"}

IsBoldFace(face) == face \in {"Bold", "BoldItalic"}

\* lines 155-170: the style file of the family that the styles select
face_of(styles) ==
    IF "bold" \in styles /\ "italic" \in styles THEN "BoldItalic"
    ELSE IF "bold" \in styles THEN "Bold"
    ELSE IF "italic" \in styles THEN "Italic"
    ELSE "Regular"

\* lines 172-214: the font object, or the exception after the last fallback
get_font_for_style(p, base_size, styles) ==
    IF p = "unloadable" THEN [loaded |-> FALSE, face |-> "none", size |-> base_size]
    ELSE [loaded |-> TRUE, face |-> face_of(styles), size |-> base_size]

\* the advance of one character in a face at a size
char_width(p, font, c) ==
    CASE p = "scalable" -> IF IsBoldFace(font.face) THEN 2 * font.size ELSE font.size
      [] p = "fixed"    -> 1
      [] p = "hinted"   -> IF c = " " THEN font.size \div 2 ELSE font.size
      [] p = "mixed"    -> IF IsBoldFace(font.face) THEN 1 ELSE 2 * font.size
      [] OTHER          -> 0

RECURSIVE textlength(_, _, _)
\* draw.textlength(unit_text, font=font_obj)
textlength(p, font, text) ==
    IF text = <<>> THEN 0
    ELSE char_width(p, font, text[1]) + textlength(p, font, Tail(text))

\* font_obj.getmetrics(): <<ascent, descent>>
getmetrics(p, font) ==
    CASE p = "scalable" -> <<font.size, font.size \div 2>>
      [] p = "fixed"    -> <<1, 0>>
      [] p = "hinted"   -> <<(font.size + 1) \div 2, 0>>
      [] p = "mixed"    -> IF IsBoldFace(font.face) THEN <<2, 0>> ELSE <<1, 0>>
      [] OTHER          -> <<0, 0>>

----------------------------------------------------------------------------
(* The fit search: the evaluation of one candidate size *)

Max(a, b) == IF a >= b THEN a ELSE b
Min(a, b) == IF a <= b THEN a ELSE b

\* the length of the longest prefix of s made of characters of the class of s[1]
RECURSIVE same_class_prefix(_, _)
same_class_prefix(s, k) ==
    IF k < Len(s) /\ isspace_char(s[k + 1]) = isspace_char(s[1])
    THEN same_class_prefix(s, k + 1)
    ELSE k

RECURSIVE split_whitespace(_)
\* [p for p in re.split(r'(\s+)', text_segment) if p]
split_whitespace(s) ==
    IF s = <<>> THEN <<>>
    ELSE LET n == same_class_prefix(s, 1)
         IN <<SubSeq(s, 1, n)>> \o split_whitespace(SubSeq(s, n + 1, Len(s)))

RECURSIVE drawable_units_of(_)
\* lines 402-406: the units of a logical line, each with the styles of its run
drawable_units_of(logical_line) ==
    IF logical_line = <<>> THEN <<>>
    ELSE LET parts == split_whitespace(logical_line[1][1])
         IN [k \in 1..Len(parts) |-> [text |-> parts[k], styles |-> logical_line[1][2]]]
            \o drawable_units_of(Tail(logical_line))

\* a RenderLine of current_iter_renderable_lines
RenderLine(segments, max_ascent, max_descent) ==
    [empty |-> FALSE, segments |-> segments,
     height |-> max_ascent + max_descent, max_ascent |-> max_ascent]
\* the marker [] of an empty logical line
EmptyMarker == [empty |-> TRUE, segments |-> <<>>, height |-> 0, max_ascent |-> 0]

\* the mutant of too_wide_first: the first unit of a line is never refused
too_wide_first_never(unit_text, current_x, unit_width_measure, usable) == FALSE

\* lines 422-424: an unbreakable unit at the start that is wider than the line
too_wide_first(unit_text, current_x, unit_width_measure, usable) ==
    ~isspace(unit_text) /\ current_x = 0 /\ unit_width_measure > usable

\* lines 427-429: the unit does not fit behind what the line holds
must_wrap(unit_text, current_x, unit_width_measure, usable) ==
    ~isspace(unit_text) /\ current_x # 0 /\ (current_x + unit_width_measure) > usable

\* lines 430-444: close the current RenderLine and open a new one
wrap_line(acc) ==
    [acc EXCEPT
        !.lines = IF acc.segments # <<>>
                  THEN Append(@, RenderLine(acc.segments, acc.max_ascent_in_line,
                                            acc.max_descent_in_line))
                  ELSE @,
        !.total = IF acc.segments # <<>>
                  THEN @ + (acc.max_ascent_in_line + acc.max_descent_in_line)
                  ELSE @,
        !.segments = <<>>,
        !.current_x = 0,
        !.max_ascent_in_line = 0,
        !.max_descent_in_line = 0]

\* lines 445-463: the unit joins the current RenderLine
place_unit(acc, unit, font, w, ascent, descent) ==
    [acc EXCEPT
        !.max_ascent_in_line = Max(@, ascent),
        !.max_descent_in_line = Max(@, descent),
        !.segments = Append(@, [text |-> unit.text, styles |-> unit.styles,
                                font |-> font, width |-> w,
                                ascent |-> ascent, descent |-> descent]),
        !.current_x = @ + w]

RECURSIVE pack_units(_, _, _, _, _, _)
\* lines 416-463: for unit_text, styles_unit in drawable_units
pack_units(units, k, acc, size, usable, p) ==
    IF k > Len(units) THEN acc
    ELSE LET unit == units[k]
             font_obj == get_font_for_style(p, size, unit.styles)
             unit_width_measure == textlength(p, font_obj, unit.text)
             metrics == getmetrics(p, font_obj)
         IN IF too_wide_first(unit.text, acc.current_x, unit_width_measure, usable)
            THEN [acc EXCEPT !.possible = FALSE]
            ELSE LET opened == IF must_wrap(unit.text, acc.current_x,
                                            unit_width_measure, usable)
                               THEN wrap_line(acc) ELSE acc
                 IN pack_units(units, k + 1,
                               place_unit(opened, unit, font_obj, unit_width_measure,
                                          metrics[1], metrics[2]),
                               size, usable, p)

\* lines 398-414 and 464-475: one logical line of the candidate size
layout_logical_line(logical_line, ev, size, usable, p) ==
    LET drawable_units == drawable_units_of(logical_line)
    IN IF drawable_units = <<>> /\ logical_line = <<>>
       THEN LET ph == getmetrics(p, get_font_for_style(p, size, {}))
            IN [ev EXCEPT !.total = @ + (ph[1] + ph[2]),
                          !.lines = Append(@, EmptyMarker)]
       ELSE LET acc == pack_units(drawable_units, 1,
                                  [lines |-> ev.lines, total |-> ev.total,
                                   possible |-> TRUE, current_x |-> 0,
                                   max_ascent_in_line |-> 0, max_descent_in_line |-> 0,
                                   segments |-> <<>>],
                                  size, usable, p)
            IN IF ~acc.possible
               THEN [ev EXCEPT !.possible = FALSE, !.lines = acc.lines, !.total = acc.total]
               ELSE IF acc.segments # <<>>
               THEN [ev EXCEPT
                       !.lines = Append(acc.lines,
                                        RenderLine(acc.segments, acc.max_ascent_in_line,
                                                   acc.max_descent_in_line)),
                       !.total = acc.total + (acc.max_ascent_in_line
                                              + acc.max_descent_in_line)]
               ELSE [ev EXCEPT !.lines = acc.lines, !.total = acc.total]

RECURSIVE layout_lines(_, _, _, _, _, _)
\* line 396: for logical_line in logical_lines_styled (left when a unit is refused)
layout_lines(lines, k, ev, size, usable, p) ==
    IF k > Len(lines) \/ ~ev.possible THEN ev
    ELSE layout_lines(lines, k + 1,
                      layout_logical_line(lines[k], ev, size, usable, p),
                      size, usable, p)

\* lines 392-475: current_iter_renderable_lines, current_iter_total_height and
\* possible_to_fit_this_size of one candidate size
evaluate_size(lines, size, usable, p) ==
    layout_lines(lines, 1, [lines |-> <<>>, total |-> 0, possible |-> TRUE],
                 size, usable, p)

\* the mutant of next_font_size: the search steps by two
next_font_size_by_two(size) == size + 2

\* line 480: font_size_iter += 1
next_font_size(size) == size + 1

\* the mutant of fits: a block as high as the available height is accepted
fits_or_equal(ev, available) == ev.possible /\ ev.total <= available

\* lines 476-477: the candidate size is accepted
fits(ev, available) == ev.possible /\ ev.total < available

\* the mutant of max_iter_font_size_of: the cap of 200 is left out
max_iter_font_size_uncapped(bg_h, w) == Max(1, Min(bg_h, w))

\* line 389: max_iter_font_size = max(1, min(bg_height, width, 200))
max_iter_font_size_of(bg_h, w) == Max(1, Min(Min(bg_h, w), MaxFontSize))

\* line 374: int(height * background_height)
bg_height_of(h, bh) == (h * bh) \div 100
\* line 375: int((margin_horizontal / 100) * width / 2)
margin_x_px_of(mh, w) == (mh * w) \div 200
\* lines 376-377: int((margin / 100) * bg_height)
margin_px_of(m, bg_h) == (m * bg_h) \div 100

bg_height == bg_height_of(height, background_height)
margin_x_px == margin_x_px_of(margin_horizontal, width)
margin_top_px == margin_px_of(margin_top, bg_height)
margin_bottom_px == margin_px_of(margin_bottom, bg_height)
usable_width == width - 2 * margin_x_px
available_height_for_text == bg_height - margin_top_px - margin_bottom_px
max_iter_font_size == max_iter_font_size_of(bg_height, width)

----------------------------------------------------------------------------
(* Spec: one caption through _generate_text_and_combined_image_from_background *)

Word(n) == [k \in 1..n |-> "a"]
Text(s) == TextNode(s)

\* the captions: no text at all, one unit, units that wrap, blank lines, styled runs
Captions ==
    { <<>>,
      <<Text(<<" ">>)>>,
      <<Br>>,
      <<Br, Text(<<" ">>)>>,
      <<TagNode("body", <<Text(Word(1))>>)>>,
      <<Text(Word(1))>>,
      <<Text(Word(3))>>,
      <<Text(<<"a", " ", "a">>)>>,
      <<Text(<<" ", "a", "a", "a">>)>>,
      <<Text(<<"a", " ", "a", "a", " ", "a">>)>>,
      <<Text(Word(1)), Br, Br, Text(Word(1))>>,
      <<Br, Text(Word(1))>>,
      <<Text(Word(1)), TagNode("b", <<Text(<<"a", " ", "a">>)>>)>>,
      <<TagNode("i", <<Text(Word(1))>>), Text(Word(2))>>,
      <<TagNode("u", <<Text(Word(1))>>), Text(<<" ">>), TagNode("u", <<Text(Word(1))>>)>>,
      <<TagNode("b", <<Text(Word(2))>>), Text(<<" ", "a">>), Br, Text(Word(1))>> }

\* the percentages of the request
BackgroundHeights == {0, 50, 100}
TextPositions == {"top", "bottom"}
HorizontalMargins == {0, 50}
TopMargins == {0, 25}
BottomMargins == {0, 25}

Box(w, h, bh, mh, mt, mb) ==
    [width |-> w, height |-> h, background_height |-> bh,
     margin_horizontal |-> mh, margin_top |-> mt, margin_bottom |-> mb]

\* the small images, and one image whose band exceeds the size cap in both directions
Boxes ==
    {Box(w, h, bh, mh, mt, mb) :
        w \in 1..MaxWidth, h \in 1..MaxHeight, bh \in BackgroundHeights,
        mh \in HorizontalMargins, mt \in TopMargins, mb \in BottomMargins}
    \cup {Box(MaxFontSize + 1, MaxFontSize + 1, 100, 0, 0, 0)}

ParseIdle ==
    /\ soup = <<>> /\ child_idx = 0 /\ logical_lines = <<>>
    /\ active_styles = {} /\ parse_pc = "idle" /\ parse_result = <<>>

Init ==
    /\ ParseIdle
    /\ AuxIdle
    /\ text_content \in Captions
    /\ profile \in Profiles
    /\ \E box \in Boxes :
          /\ width = box.width /\ height = box.height
          /\ background_height = box.background_height
          /\ margin_horizontal = box.margin_horizontal
          /\ margin_top = box.margin_top /\ margin_bottom = box.margin_bottom
    /\ pc = "start"
    /\ logical_lines_styled = <<>>
    /\ font_size_iter = 0 /\ best_font_size = 0
    /\ final_renderable_lines_layout = <<>>
    /\ tried = <<>> /\ drawn = <<>> /\ underlines = <<>> /\ lines_drawn = <<>>
    /\ line_idx = 0 /\ current_y = 0 /\ result = <<>>

request_vars == <<text_content, profile, width, height, background_height,
                  margin_horizontal, margin_top, margin_bottom>>
render_vars == <<drawn, underlines, lines_drawn, line_idx, current_y>>

\* line 387: any(line for line in logical_lines_styled)
any_line(lines) == \E l \in 1..Len(lines) : lines[l] # <<>>

\* lines 372-389: parse the caption; the search starts at size 1 when a line has a run
ParseCaption ==
    /\ pc = "start"
    /\ logical_lines_styled' = parse_html_text(text_content)
    /\ IF any_line(logical_lines_styled')
       THEN pc' = "search" /\ font_size_iter' = 1
       ELSE pc' = "layout" /\ font_size_iter' = font_size_iter
    /\ UNCHANGED <<parse_vars, aux_vars, request_vars, result, best_font_size,
                   final_renderable_lines_layout, tried, render_vars>>

\* lines 409 and 417: the first font load of the evaluation raises
FontFailure ==
    /\ pc = "search"
    /\ font_size_iter <= max_iter_font_size
    /\ ~get_font_for_style(profile, font_size_iter, {}).loaded
    /\ pc' = "raised"
    /\ UNCHANGED <<parse_vars, aux_vars, request_vars, result, logical_lines_styled, font_size_iter,
                   best_font_size, final_renderable_lines_layout, tried, render_vars>>

\* lines 391-480: the candidate size fits; it is the best so far, try the next
AcceptSize ==
    /\ pc = "search"
    /\ font_size_iter <= max_iter_font_size
    /\ get_font_for_style(profile, font_size_iter, {}).loaded
    /\ LET ev == evaluate_size(logical_lines_styled, font_size_iter, usable_width, profile)
       IN /\ fits(ev, available_height_for_text)
          /\ best_font_size' = font_size_iter
          /\ final_renderable_lines_layout' = ev.lines
    /\ font_size_iter' = next_font_size(font_size_iter)
    /\ tried' = Append(tried, [size |-> font_size_iter, accepted |-> TRUE])
    /\ UNCHANGED <<parse_vars, aux_vars, request_vars, result, pc, logical_lines_styled, render_vars>>

\* lines 391-482: the candidate size does not fit: break
RejectSize ==
    /\ pc = "search"
    /\ font_size_iter <= max_iter_font_size
    /\ get_font_for_style(profile, font_size_iter, {}).loaded
    /\ ~fits(evaluate_size(logical_lines_styled, font_size_iter, usable_width, profile),
             available_height_for_text)
    /\ tried' = Append(tried, [size |-> font_size_iter, accepted |-> FALSE])
    /\ pc' = "layout"
    /\ UNCHANGED <<parse_vars, aux_vars, request_vars, result, logical_lines_styled, font_size_iter,
                   best_font_size, final_renderable_lines_layout, render_vars>>

\* line 391: the loop ends at the cap
SearchExhausted ==
    /\ pc = "search"
    /\ font_size_iter > max_iter_font_size
    /\ pc' = "layout"
    /\ UNCHANGED <<parse_vars, aux_vars, request_vars, result, logical_lines_styled, font_size_iter,
                   best_font_size, final_renderable_lines_layout, tried, render_vars>>

RECURSIVE sum_heights(_)
\* lines 487-489: the heights of the entries that are RenderLines
sum_heights(layout) ==
    IF layout = <<>> THEN 0
    ELSE (IF layout[1].empty THEN 0 ELSE layout[1].height) + sum_heights(Tail(layout))

\* lines 491-495: the offset that centres the block
padding_top_final_of(actual_total_text_height, available) ==
    IF actual_total_text_height > 0 /\ actual_total_text_height < available
    THEN (available - actual_total_text_height) \div 2
    ELSE 0

\* lines 484-497: the renderer starts when a size was accepted
RenderBegin ==
    /\ pc = "layout"
    /\ IF best_font_size > 0 /\ final_renderable_lines_layout # <<>>
       THEN /\ pc' = "render"
            /\ line_idx' = 1
            /\ current_y' = margin_top_px
                  + padding_top_final_of(sum_heights(final_renderable_lines_layout),
                                         available_height_for_text)
       ELSE /\ pc' = "compose"
            /\ UNCHANGED <<line_idx, current_y>>
    /\ UNCHANGED <<parse_vars, aux_vars, request_vars, result, logical_lines_styled, font_size_iter,
                   best_font_size, final_renderable_lines_layout, tried,
                   drawn, underlines, lines_drawn>>

RECURSIVE sum_widths(_)
\* lines 512-513
sum_widths(segments) ==
    IF segments = <<>> THEN 0 ELSE segments[1].width + sum_widths(Tail(segments))

\* lines 515-517
start_x_for_line_of(line_segments) ==
    Max(margin_x_px,
        margin_x_px + (width - 2 * margin_x_px - sum_widths(line_segments)) \div 2)

\* the mutant of y_draw_pos_of: every segment is drawn at the top of its line
y_draw_pos_top(line_top, line_max_ascent, ascent) == line_top

\* line 526: y_draw_pos = current_y + (line_max_ascent - segment["ascent"])
y_draw_pos_of(line_top, line_max_ascent, ascent) == line_top + (line_max_ascent - ascent)

\* the mutant of underlined: every segment gets a stroke
underlined_always(seg_styles) == TRUE

\* line 533: if 'underline' in seg_styles
underlined(seg_styles) == "underline" \in seg_styles

RECURSIVE draw_segments(_, _, _, _, _, _)
\* lines 521-541: the draw.text call of every segment, the draw.line call of every
\* underlined one
draw_segments(segments, k, current_x_draw, line_top, line_max_ascent, out) ==
    IF k > Len(segments) THEN out
    ELSE LET segment == segments[k]
             y_draw_pos == y_draw_pos_of(line_top, line_max_ascent, segment.ascent)
             text_call == [text |-> segment.text, x |-> current_x_draw, y |-> y_draw_pos,
                           ascent |-> segment.ascent, width |-> segment.width,
                           styles |-> segment.styles, line |-> line_idx]
             line_call == [x1 |-> current_x_draw, x2 |-> current_x_draw + segment.width,
                           y |-> y_draw_pos + segment.ascent + 2, line |-> line_idx,
                           segment |-> k]
         IN draw_segments(segments, k + 1, current_x_draw + segment.width,
                          line_top, line_max_ascent,
                          [texts |-> Append(out.texts, text_call),
                           strokes |-> IF underlined(segment.styles)
                                       THEN Append(out.strokes, line_call)
                                       ELSE out.strokes])

\* the mutant of empty_line_advance: an empty marker does not move the position
empty_line_advance_none(p, size) == 0

\* lines 501-505: empty_line_ascent + empty_line_descent of the dummy font
empty_line_advance(p, size) ==
    LET m == getmetrics(p, get_font_for_style(p, size, {}))
    IN m[1] + m[2]

\* lines 499-543: one entry of the layout
RenderLineStep ==
    /\ pc = "render"
    /\ line_idx <= Len(final_renderable_lines_layout)
    /\ LET line_info == final_renderable_lines_layout[line_idx]
       IN IF line_info.empty
          THEN /\ current_y' = current_y + empty_line_advance(profile, best_font_size)
               /\ UNCHANGED <<drawn, underlines>>
          ELSE LET out == draw_segments(line_info.segments, 1,
                                        start_x_for_line_of(line_info.segments),
                                        current_y, line_info.max_ascent,
                                        [texts |-> drawn, strokes |-> underlines])
               IN /\ drawn' = out.texts
                  /\ underlines' = out.strokes
                  /\ current_y' = current_y + line_info.height
    /\ lines_drawn' = Append(lines_drawn, [y |-> current_y, line |-> line_idx])
    /\ line_idx' = line_idx + 1
    /\ UNCHANGED <<parse_vars, aux_vars, request_vars, result, pc, logical_lines_styled, font_size_iter,
                   best_font_size, final_renderable_lines_layout, tried>>

\* line 499: the loop over the layout is over
RenderEnd ==
    /\ pc = "render"
    /\ line_idx > Len(final_renderable_lines_layout)
    /\ pc' = "compose"
    /\ UNCHANGED <<parse_vars, aux_vars, request_vars, result, logical_lines_styled, font_size_iter,
                   best_font_size, final_renderable_lines_layout, tried, render_vars>>

\* an image: its size, what its pixels are when it is made, and what was put onto
\* it since, in order
NewImage(w, h, base) == [width |-> w, height |-> h, base |-> base, layers |-> <<>>]

RECURSIVE fully_transparent(_)
\* every pixel of the image has alpha 0: it was made transparent, nothing was drawn
\* on it and only transparent images were put onto it
fully_transparent(image) ==
    /\ image.base = "transparent"
    /\ \A k \in 1..Len(image.layers) :
          /\ image.layers[k].kind \in {"paste", "alpha_composite"}
          /\ fully_transparent(image.layers[k].source)

\* lines 521-541: ImageDraw on the band: the draw.text and the draw.line calls
draw_on(image, texts, strokes) ==
    [image EXCEPT !.layers =
        @ \o [k \in 1..Len(texts) |-> [kind |-> "text", call |-> texts[k]]]
          \o [k \in 1..Len(strokes) |-> [kind |-> "line", call |-> strokes[k]]]]

\* Image.paste(source, box) without a mask: the pixels of the box become the source's
paste(image, source, box) ==
    [image EXCEPT !.layers = Append(@, [kind |-> "paste", source |-> source, at |-> box])]

\* the mutant of alpha_composite: the source replaces what is below it, as a paste does
alpha_composite_paste(image, source, dest) ==
    [image EXCEPT !.layers = Append(@, [kind |-> "alpha_composite", source |-> source,
                                        at |-> dest])]

\* Image.alpha_composite(source, dest): a pixel of the source with alpha 0 leaves the
\* pixel below it as it is
alpha_composite(image, source, dest) ==
    IF fully_transparent(source) THEN image
    ELSE [image EXCEPT !.layers = Append(@, [kind |-> "alpha_composite", source |-> source,
                                             at |-> dest])]

\* lines 546-549 and 563-566 (and 343-346): where the band goes
position_of(text_position, h, bg_h) ==
    IF text_position = "bottom" THEN <<0, h - bg_h>> ELSE <<0, 0>>

\* the arguments original_img and overlay_image: the decoded image and the band
\* _generate_background_once painted
original_img == NewImage(width, height, "original")
overlay_image_arg == NewImage(width, bg_height, "overlay")

\* line 379 and the draw calls of the renderer
text_on_bg_overlay == draw_on(NewImage(width, bg_height, "transparent"), drawn, underlines)

\* lines 545-551
text_only_full_image_of(text_position) ==
    paste(NewImage(width, height, "transparent"), text_on_bg_overlay,
          position_of(text_position, height, bg_height))

\* lines 559-567
final_combined_img_of(text_position) ==
    LET final_overlay_with_text == alpha_composite(overlay_image_arg, text_on_bg_overlay,
                                                   <<0, 0>>)
    IN alpha_composite(original_img, final_overlay_with_text,
                       position_of(text_position, height, bg_height))

\* lines 342-347: the background-only image of the request
background_only_img_of(text_position) ==
    alpha_composite(original_img, overlay_image_arg,
                    position_of(text_position, height, bg_height))

\* lines 545-576: the two images are composed and returned; text_position is an
\* argument nothing before these lines reads
Compose ==
    /\ pc = "compose"
    /\ \E text_position \in TextPositions :
          result' = [text_position |-> text_position,
                     text_only |-> text_only_full_image_of(text_position),
                     final_combined |-> final_combined_img_of(text_position)]
    /\ pc' = "returned"
    /\ UNCHANGED <<parse_vars, aux_vars, request_vars, logical_lines_styled, font_size_iter,
                   best_font_size, final_renderable_lines_layout, tried, render_vars>>

Next ==
    \/ ParseCaption
    \/ FontFailure
    \/ AcceptSize
    \/ RejectSize
    \/ SearchExhausted
    \/ RenderBegin
    \/ RenderLineStep
    \/ RenderEnd
    \/ Compose

Spec == Init /\ [][Next]_vars

\* the fit search as a function of the text and the box: the first size from
\* `size` on that is not accepted ends it, the size before is the result
RECURSIVE fit_search(_, _, _, _, _, _)
fit_search(lines, size, usable, available, cap, p) ==
    IF size <= cap /\ fits(evaluate_size(lines, size, usable, p), available)
    THEN fit_search(lines, next_font_size(size), usable, available, cap, p)
    ELSE size - 1

\* lines 384-389: without a run in any line the search is skipped
selected_size(lines, usable, available, cap, p) ==
    IF any_line(lines) THEN fit_search(lines, 1, usable, available, cap, p) ELSE 0

----------------------------------------------------------------------------
(* The claims about the fit search *)

\* the verdict of the per-size evaluation on the caption of the state
Accepted(size) ==
    fits(evaluate_size(logical_lines_styled, size, usable_width, profile),
         available_height_for_text)

SearchOver == pc \in {"layout", "render", "compose", "returned"}

\* the ceiling as the spec words it
SpecCeiling == Min(Min(bg_height, width), MaxFontSize)

RECURSIVE BlockHeight(_, _)
\* the height of a layout: the RenderLines' heights and, for every empty marker,
\* the ascent + descent of the Regular face at the layout's size
BlockHeight(layout, size) ==
    IF layout = <<>> THEN 0
    ELSE (IF layout[1].empty
          THEN LET m == getmetrics(profile, [loaded |-> TRUE, face |-> "Regular",
                                             size |-> size])
               IN m[1] + m[2]
          ELSE layout[1].height)
         + BlockHeight(Tail(layout), size)

\* C1: whenever a size was accepted, the recorded layout's block height, blank-line
\* placeholders included, is strictly below bg_height - margin_top_px - margin_bottom_px.
C1_BlockBelowAvailable ==
    best_font_size > 0 =>
        BlockHeight(final_renderable_lines_layout, best_font_size)
            < bg_height - margin_top_px - margin_bottom_px

\* C1 witness: the search ended on a layout with a RenderLine and a placeholder.
C1_Witness ==
    /\ pc = "layout" /\ best_font_size > 0
    /\ \E k \in 1..Len(final_renderable_lines_layout) :
          final_renderable_lines_layout[k].empty
    /\ \E k \in 1..Len(final_renderable_lines_layout) :
          ~final_renderable_lines_layout[k].empty

\* C2 (as claimed): the size returned is the largest S in 1..min(bg_height, width, 200)
\* that the per-size evaluation accepts, and 0 only when none is accepted. (Read for
\* the captions that have a run in some line: the others are never searched.)
C2_LargestAccepted ==
    (pc = "layout" /\ any_line(logical_lines_styled)) =>
        /\ best_font_size > 0 => best_font_size \in 1..SpecCeiling /\ Accepted(best_font_size)
        /\ \A s \in 1..SpecCeiling : Accepted(s) => s <= best_font_size /\ best_font_size > 0

\* what the search returns for a caption with a run in some line: the largest S
\* in 1..min(bg_height, width, 200) such that every size of 1..S is accepted, and
\* 0 exactly when size 1 is not accepted (or the range is empty)
SearchReturnsAcceptedPrefix ==
    (pc = "layout" /\ any_line(logical_lines_styled)) =>
        /\ best_font_size \in 0..SpecCeiling
        /\ \A s \in 1..best_font_size : Accepted(s)
        /\ best_font_size < SpecCeiling => ~Accepted(best_font_size + 1)

\* C3: the sizes are evaluated in the order 1, 2, 3, ...; none is evaluated after the
\* first that is not accepted; the search ends holding the last accepted size with
\* its full layout, and size 0 with the empty layout when size 1 is not accepted.
C3_SearchOrder ==
    /\ \A k \in 1..Len(tried) : tried[k].size = k
    /\ \A k \in 1..(Len(tried) - 1) : tried[k].accepted
    /\ pc = "search" => font_size_iter = Len(tried) + 1
    /\ LET accepted == {k \in 1..Len(tried) : tried[k].accepted}
       IN /\ best_font_size = Cardinality(accepted)
          /\ best_font_size = 0 => final_renderable_lines_layout = <<>>
          /\ best_font_size > 0 =>
                final_renderable_lines_layout
                    = evaluate_size(logical_lines_styled, best_font_size,
                                    usable_width, profile).lines

\* C3 witness: two sizes were accepted and the third was not.
C3_Witness ==
    /\ pc = "layout" /\ Len(tried) = 3 /\ best_font_size = 2
    /\ ~tried[3].accepted

\* C4 (as claimed): no size above min(bg_height, width, 200) is ever evaluated.
C4_NeverAboveMin ==
    \A k \in 1..Len(tried) : tried[k].size <= SpecCeiling

\* C4 (amended): no size above max(1, min(bg_height, width, 200)) is ever evaluated:
\* size 1 is evaluated also in a band of height 0.
C4_NeverAboveCeiling ==
    \A k \in 1..Len(tried) :
        tried[k].size <= (IF SpecCeiling < 1 THEN 1 ELSE SpecCeiling)

\* C4 witness: the search stopped at 200 although size 201 fits the box.
C4_Witness ==
    /\ pc = "layout" /\ best_font_size = MaxFontSize
    /\ Len(tried) = MaxFontSize
    /\ Accepted(MaxFontSize + 1)

\* the caption is one unit that is not whitespace
SingleUnit ==
    /\ Len(logical_lines_styled) = 1
    /\ Len(drawable_units_of(logical_lines_styled[1])) = 1
    /\ ~isspace(drawable_units_of(logical_lines_styled[1])[1].text)

\* the measured width of that unit at a size
SingleUnitWidth(size) ==
    LET unit == drawable_units_of(logical_lines_styled[1])[1]
    IN textlength(profile, [loaded |-> TRUE, face |-> face_of(unit.styles), size |-> size],
                  unit.text)

\* C5: a caption that is one non-whitespace unit wider than width - 2*margin_x_px
\* at every size ends with size 0 and the empty layout, nothing is drawn, and the
\* pipeline does not raise.
C5_WideUnitNothingDrawn ==
    (pc # "start" /\ profile # "unloadable" /\ SingleUnit
        /\ \A s \in 1..max_iter_font_size : SingleUnitWidth(s) > width - 2 * margin_x_px) =>
        /\ best_font_size = 0
        /\ final_renderable_lines_layout = <<>>
        /\ drawn = <<>> /\ underlines = <<>> /\ lines_drawn = <<>>
        /\ pc \notin {"raised", "render"}
        /\ SearchOver => tried = <<[size |-> 1, accepted |-> FALSE]>>

\* C5 witness: such a caption was returned, in a band high enough for its unit.
C5_Witness ==
    /\ pc = "returned" /\ profile # "unloadable" /\ SingleUnit
    /\ \A s \in 1..max_iter_font_size : SingleUnitWidth(s) > width - 2 * margin_x_px
    /\ BlockHeight(<<EmptyMarker>>, 1) < available_height_for_text

\* the per-size evaluation is downward closed in the size, in the box of the state
MonotoneInSize ==
    \A s \in 1..MaxProbeSize : Accepted(s) => \A r \in 1..(s - 1) : Accepted(r)

\* the size selected with one pixel less of usable width
SelectedNarrower ==
    selected_size(logical_lines_styled, usable_width - 1, available_height_for_text,
                  max_iter_font_size, profile)

\* the size selected with one pixel less of available height
SelectedLower ==
    selected_size(logical_lines_styled, usable_width, available_height_for_text - 1,
                  max_iter_font_size, profile)

\* C6 (as claimed): with metrics nondecreasing in the size, a text accepted at S is
\* accepted at every smaller size in the same box, and shrinking the box width or
\* height never increases the selected size.
C6_Monotone ==
    pc = "layout" =>
        /\ MonotoneInSize
        /\ SelectedNarrower <= best_font_size
        /\ SelectedLower <= best_font_size

Faces == {"Regular", "Bold", "Italic", "BoldItalic"}

\* every character has a positive advance in every face, at the sizes probed
PositiveWidths ==
    \A f \in Faces, c \in Chars, s \in 1..MaxProbeSize :
        char_width(profile, [loaded |-> TRUE, face |-> f, size |-> s], c) > 0

\* all faces share one ascent and one descent at every size probed
UniformHeights ==
    \A f \in Faces, s \in 1..MaxProbeSize :
        getmetrics(profile, [loaded |-> TRUE, face |-> f, size |-> s])
            = getmetrics(profile, [loaded |-> TRUE, face |-> "Regular", size |-> s])

\* the monotonicity holds of the fonts whose advances are all positive and whose faces share one
\* ascent and descent: a text accepted at S with usable width U and available
\* height H is accepted at every smaller size with the same U and H, and a smaller
\* U, H or size cap never increases the selected size.
MonotoneOnUniformFonts ==
    (pc = "layout" /\ PositiveWidths /\ UniformHeights) =>
        /\ MonotoneInSize
        /\ \A u \in {usable_width - 1, usable_width},
              h \in {available_height_for_text - 1, available_height_for_text},
              cap \in {max_iter_font_size - 1, max_iter_font_size} :
                selected_size(logical_lines_styled, u, h, cap, profile) <= best_font_size

----------------------------------------------------------------------------
(* The markup as written, for the claims about parse_html_text *)

RECURSIVE CountBr(_)
\* the break tags of a markup, at any depth
CountBr(nodes) ==
    IF nodes = <<>> THEN 0
    ELSE (IF nodes[1].name = "br" THEN 1 ELSE 0)
         + CountBr(nodes[1].children) + CountBr(Tail(nodes))

RECURSIVE HasVisibleText(_)
\* some text of the markup, at any depth, has a non-whitespace character
HasVisibleText(nodes) ==
    /\ nodes # <<>>
    /\ \/ IsText(nodes[1]) /\ \E k \in 1..Len(nodes[1].content) : nodes[1].content[k] # " "
       \/ HasVisibleText(nodes[1].children)
       \/ HasVisibleText(Tail(nodes))

\* character data that becomes adjacent is one text node
JoinText(left, right) ==
    IF left # <<>> /\ right # <<>> /\ IsText(left[Len(left)]) /\ IsText(right[1])
    THEN SubSeq(left, 1, Len(left) - 1)
         \o <<TextNode(left[Len(left)].content \o right[1].content)>>
         \o Tail(right)
    ELSE left \o right

RECURSIVE WithoutOtherTags(_)
\* the same markup with the opening and closing markers of every tag other than
\* b, i, u and br removed, the children kept in place
WithoutOtherTags(nodes) ==
    IF nodes = <<>> THEN <<>>
    ELSE LET n == nodes[1]
             head == IF IsText(n) \/ n.name = "br" THEN <<n>>
                     ELSE IF n.name \in StyleTags
                     THEN <<TagNode(n.name, WithoutOtherTags(n.children))>>
                     ELSE WithoutOtherTags(n.children)
         IN JoinText(head, WithoutOtherTags(Tail(nodes)))

RECURSIVE EnclosedWalk(_, _, _)
\* the lines of the text the walk visits, every run with the styles of the
\* b, i, u tags it lies in (the styles are passed down, none is ever removed)
EnclosedWalk(nodes, enclosing, lines) ==
    IF nodes = <<>> THEN lines
    ELSE LET n == nodes[1]
             here == IF IsText(n)
                     THEN [lines EXCEPT ![Len(lines)] = Append(@, <<n.content, enclosing>>)]
                     ELSE IF n.name = "br" THEN Append(lines, <<>>)
                     ELSE IF n.name \in StyleTags
                     THEN EnclosedWalk(n.children, enclosing \cup {style_map[n.name]}, lines)
                     ELSE IF n.name \in {"html", "body"} THEN lines
                     ELSE EnclosedWalk(n.children, enclosing, lines)
         IN EnclosedWalk(Tail(nodes), enclosing, here)

RECURSIVE Leaves(_)
\* the text nodes and break tags of a markup in document order, at any depth
Leaves(nodes) ==
    IF nodes = <<>> THEN <<>>
    ELSE (IF IsText(nodes[1]) \/ nodes[1].name = "br" THEN <<nodes[1]>>
          ELSE Leaves(nodes[1].children))
         \o Leaves(Tail(nodes))

\* the markup ends its last line empty: a break with no text after it
EndsWithBreak(nodes) ==
    Leaves(nodes) # <<>> /\ Leaves(nodes)[Len(Leaves(nodes))].name = "br"

\* C7 (as claimed): markup with n break tags and some non-whitespace text parses
\* to n+1 LogicalLines, one fewer when the last line is empty; never more than one
\* line is removed and a sole line stays.
C7_BreakLineCount ==
    (parse_pc = "done" /\ HasVisibleText(soup)) =>
        Len(parse_result) = CountBr(soup) + 1 - (IF EndsWithBreak(soup) THEN 1 ELSE 0)

\* the count holds of every markup that has no html or body tag around a break or
\* around its text: then every break and every text node is visited.
BreakLineCountVisited ==
    (parse_pc = "done" /\ HasVisibleText(soup)
        /\ WithoutOtherTags(soup) = soup) =>
        /\ Len(parse_result) = CountBr(soup) + 1 - (IF EndsWithBreak(soup) THEN 1 ELSE 0)
        /\ Len(parse_result) >= 1

\* C9: every TextRun carries exactly the styles of the b, i, u tags that enclose
\* its text (also for a tag nested in a tag of its own kind, and for a break
\* inside a tag), and no style is active between top-level nodes or at the end.
C9_StylesAreEnclosingTags ==
    parse_pc \in {"walk", "done"} =>
        /\ logical_lines = EnclosedWalk(SubSeq(soup, 1, child_idx - 1), {}, <<<<>>>>)
        /\ active_styles = {}

\* C9 witness: a b/i/u tag holds a tag of its own kind and, after it, text; the
\* walk is over.
C9_Witness ==
    /\ parse_pc = "done"
    /\ \E k \in 1..Len(soup) :
          /\ soup[k].name \in StyleTags
          /\ Len(soup[k].children) = 2
          /\ soup[k].children[1].name = soup[k].name
          /\ IsText(soup[k].children[2])
    /\ \E l \in 1..Len(logical_lines) : \E r \in 1..Len(logical_lines[l]) :
          logical_lines[l][r][2] # {}

\* C10 (as claimed): a tag other than b, i, u and br is transparent: the output
\* is the output for the same markup without the tag's markers.
C10_OtherTagsTransparent ==
    parse_pc = "done" => parse_result = parse_html_text(WithoutOtherTags(soup))

----------------------------------------------------------------------------
(* The sentinel for "no renderable text": the parser and the pipeline together *)

\* parse_html_text on every markup of SpecParse, and the caption pipeline on its
\* captions
InitCaptionText == InitParse \/ Init

NextCaptionText == NextParse \/ Next

SpecCaptionText == InitCaptionText /\ [][NextCaptionText]_vars

\* some TextRun among the lines has a character that is not a space
VisibleRun(lines) ==
    \E l \in 1..Len(lines) : \E r \in 1..Len(lines[l]) :
        \E k \in 1..Len(lines[l][r][1]) : lines[l][r][1][k] # " "

\* the TextRuns the walk makes of a markup
WalkedLines(nodes) == process_children(nodes, 1, [lines |-> <<<<>>>>, styles |-> {}]).lines

----------------------------------------------------------------------------
(* Serialising LogicalLines back to markup and parsing again *)

\* a run as markup: its text inside the tags of its styles
RunMarkup(run) ==
    LET text == TextNode(run[1])
        u == IF "underline" \in run[2] THEN TagNode("u", <<text>>) ELSE text
        i == IF "italic" \in run[2] THEN TagNode("i", <<u>>) ELSE u
    IN IF "bold" \in run[2] THEN TagNode("b", <<i>>) ELSE i

RECURSIVE LineMarkup(_)
\* the runs of a line one after the other; character data that meets is one node
LineMarkup(line) ==
    IF line = <<>> THEN <<>>
    ELSE JoinText(<<RunMarkup(line[1])>>, LineMarkup(Tail(line)))

RECURSIVE Serialise(_)
\* the lines joined by the break tag
Serialise(lines) ==
    IF lines = <<>> THEN <<>>
    ELSE IF Len(lines) = 1 THEN LineMarkup(lines[1])
    ELSE JoinText(LineMarkup(lines[1]), <<Br>> \o Serialise(Tail(lines)))

RECURSIVE MergePlain(_)
\* a line with its neighbouring runs of empty StyleSet made one run
MergePlain(line) ==
    IF Len(line) < 2 THEN line
    ELSE IF line[1][2] = {} /\ line[2][2] = {}
    THEN MergePlain(<<<<line[1][1] \o line[2][1], {}>>>> \o Tail(Tail(line)))
    ELSE <<line[1]>> \o MergePlain(Tail(line))

\* the lines without one empty last line (a sole line stays), plain neighbours merged
Reserialised(lines) ==
    LET kept == IF Len(lines) > 1 /\ lines[Len(lines)] = <<>>
                THEN SubSeq(lines, 1, Len(lines) - 1) ELSE lines
    IN [l \in 1..Len(kept) |-> MergePlain(kept[l])]

\* C11 (as claimed): for markup of b, i, u, break tags and text, serialising the
\* LogicalLines returned and parsing the serialisation yields the same lines.
C11_ReparseSame ==
    (parse_pc = "done" /\ WithoutOtherTags(soup) = soup) =>
        parse_html_text(Serialise(parse_result)) = parse_result

\* C11 (amended): for markup of b, i, u, break tags and text, parsing the
\* serialisation of the returned LogicalLines yields those lines with one empty
\* last line dropped and neighbouring runs of empty StyleSet merged; so it yields
\* the same lines when the result has no empty last line and no two such runs.
C11_ReparseNormalised ==
    (parse_pc = "done" /\ WithoutOtherTags(soup) = soup) =>
        parse_html_text(Serialise(parse_result)) = Reserialised(parse_result)

\* C11 witness: a result of two lines, the last one with a styled run, was
\* serialised and parsed to the same lines.
C11_Witness ==
    /\ parse_pc = "done" /\ WithoutOtherTags(soup) = soup
    /\ Len(parse_result) = 2
    /\ \E r \in 1..Len(parse_result[2]) : parse_result[2][r][2] # {}
    /\ parse_html_text(Serialise(parse_result)) = parse_result

----------------------------------------------------------------------------
(* rgba_from_string *)

\* str.lower() on the letters of the strings of SpecColor
lower_char(c) ==
    CASE c = "R" -> "r" [] c = "G" -> "g" [] c = "B" -> "b" [] c = "A" -> "a"
      [] OTHER -> c

lower(s) == [k \in 1..Len(s) |-> lower_char(s[k])]

RECURSIVE lstrip(_)
lstrip(s) == IF s # <<>> /\ s[1] = " " THEN lstrip(Tail(s)) ELSE s

RECURSIVE rstrip(_)
rstrip(s) ==
    IF s # <<>> /\ s[Len(s)] = " " THEN rstrip(SubSeq(s, 1, Len(s) - 1)) ELSE s

\* str.strip()
strip(s) == rstrip(lstrip(s))

startswith(s, prefix) ==
    Len(s) >= Len(prefix) /\ SubSeq(s, 1, Len(prefix)) = prefix

endswith(s, suffix) ==
    Len(s) >= Len(suffix) /\ SubSeq(s, Len(s) - Len(suffix) + 1, Len(s)) = suffix

RECURSIVE split_comma(_, _)
\* str.split(','): the parts between the commas, `part` being the one under way
split_comma(s, part) ==
    IF s = <<>> THEN <<part>>
    ELSE IF s[1] = "," THEN <<part>> \o split_comma(Tail(s), <<>>)
    ELSE split_comma(Tail(s), Append(part, s[1]))

Digits == {"0", "1", "2", "3", "4", "5", "6", "7", "8", "9"}

digit_value(c) ==
    CASE c = "0" -> 0 [] c = "1" -> 1 [] c = "2" -> 2 [] c = "3" -> 3 [] c = "4" -> 4
      [] c = "5" -> 5 [] c = "6" -> 6 [] c = "7" -> 7 [] c = "8" -> 8 [] OTHER -> 9

RECURSIVE digits_value(_, _)
digits_value(ds, acc) ==
    IF ds = <<>> THEN acc ELSE digits_value(Tail(ds), 10 * acc + digit_value(ds[1]))

RECURSIVE lstrip_zeros(_)
lstrip_zeros(ds) == IF ds # <<>> /\ ds[1] = "0" THEN lstrip_zeros(Tail(ds)) ELSE ds

RECURSIVE pow10(_)
pow10(n) == IF n = 0 THEN 1 ELSE 10 * pow10(n - 1)

\* a decimal numeral with more digits than this before the point (leading zeros
\* apart) exceeds the largest float: float() returns inf for it
MaxFloatDigits == 309

\* float(text): the decimal numerals are accepted (a sign, digits, at most one
\* point, a digit at least); the value is numerator / denominator, neg the sign
\* written, or infinity. Every other text of SpecColor raises ValueError.
float_of(text) ==
    LET t == strip(text)
        signed == t # <<>> /\ t[1] \in {"-", "+"}
        body == IF signed THEN Tail(t) ELSE t
        points == {k \in 1..Len(body) : body[k] = "."}
        ds == SelectSeq(body, LAMBDA c : c \in Digits)
        ok == /\ ds # <<>>
              /\ Cardinality(points) <= 1
              /\ \A k \in 1..Len(body) : body[k] \in Digits \cup {"."}
        places == IF points = {} THEN 0 ELSE Len(body) - (CHOOSE k \in points : TRUE)
        whole == lstrip_zeros(SubSeq(ds, 1, Len(ds) - places))
    IN IF ~ok
       THEN [ok |-> FALSE, inf |-> FALSE, neg |-> FALSE, numerator |-> 0, denominator |-> 1]
       ELSE IF Len(whole) > MaxFloatDigits
       THEN [ok |-> TRUE, inf |-> TRUE, neg |-> signed /\ t[1] = "-",
             numerator |-> 0, denominator |-> 1]
       ELSE [ok |-> TRUE, inf |-> FALSE, neg |-> signed /\ t[1] = "-",
             numerator |-> digits_value(ds, 0), denominator |-> pow10(places)]

\* round(n / q) of a value that is not negative: ties go to the even integer
round_half_even(n, q) ==
    LET f == n \div q
        rem == n % q
    IN IF 2 * rem < q THEN f
       ELSE IF 2 * rem > q THEN f + 1
       ELSE IF f % 2 = 0 THEN f ELSE f + 1

\* int(round(x)) of a parsed value, times `factor`
int_round(x, factor) ==
    LET r == round_half_even(factor * x.numerator, x.denominator)
    IN IF x.neg THEN 0 - r ELSE r

\* line 275: '.' in a_str and 0.0 <= a_float <= 1.0
alpha_scaled(a_str, a_float) ==
    /\ \E k \in 1..Len(a_str) : a_str[k] = "."
    /\ ~a_float.inf
    /\ (~a_float.neg \/ a_float.numerator = 0)
    /\ a_float.numerator <= a_float.denominator

\* lines 272-283: the alpha channel before the clamp
alpha_of(a_str, a_float) ==
    IF alpha_scaled(a_str, a_float)
    THEN IF Len(a_str) > 1 /\ a_str # <<"0">> /\ a_str # <<"1">>
         THEN int_round(a_float, 255)
         ELSE int_round(a_float, 1)
    ELSE int_round(a_float, 1)

\* max(0, min(255, x))
clamp_channel(x) == Max(0, Min(255, x))

\* the mutant of field_count_ok: fields after the fourth are ignored
field_count_at_least(parts_str_list) == Len(parts_str_list) >= 4

\* line 267: len(parts_str_list) != 4 raises
field_count_ok(parts_str_list) == Len(parts_str_list) = 4

\* lines 262-287: the body of the try; exc is the exception raised, if any
\* (ValueError by the checks and by float(), OverflowError by round(inf))
rgba_try(s) ==
    LET parts_str == lower(strip(s))
        failed == [exc |-> "ValueError", value |-> <<>>]
    IN IF ~startswith(parts_str, <<"r", "g", "b", "a", "(">>) \/ ~endswith(parts_str, <<")">>)
       THEN failed
       ELSE LET parts_str_list == split_comma(SubSeq(parts_str, 6, Len(parts_str) - 1), <<>>)
            IN IF ~field_count_ok(parts_str_list) THEN failed
               ELSE LET r == float_of(parts_str_list[1])
                        g == float_of(parts_str_list[2])
                        b == float_of(parts_str_list[3])
                        a_str == strip(parts_str_list[4])
                        a_float == float_of(a_str)
                    IN IF ~r.ok \/ ~g.ok \/ ~b.ok \/ ~a_float.ok THEN failed
                       ELSE IF r.inf \/ g.inf \/ b.inf \/ a_float.inf
                       THEN [exc |-> "OverflowError", value |-> <<>>]
                       ELSE [exc |-> "none",
                             value |-> <<clamp_channel(int_round(r, 1)),
                                         clamp_channel(int_round(g, 1)),
                                         clamp_channel(int_round(b, 1)),
                                         clamp_channel(alpha_of(a_str, a_float))>>]

\* line 288: except Exception
except_Exception(exc) == exc \in {"ValueError", "OverflowError", "AttributeError"}

\* lines 260-292
rgba_from_string(s) ==
    LET tried_body == rgba_try(s)
    IN IF tried_body.exc = "none" THEN [raised |-> FALSE, value |-> tried_body.value]
       ELSE IF except_Exception(tried_body.exc)
       THEN [raised |-> FALSE, value |-> <<0, 0, 0, 180>>]
       ELSE [raised |-> TRUE, value |-> <<>>]

\* the texts of the colour fields and of the alpha field. The fractions are
\* dyadic, so the float arithmetic of the code is exact on them.
ChannelFields ==
    { <<"0">>, <<"2", "5", "5">>, <<"3", "0", "0">>, <<"-", "1">>, <<"x">>,
      <<"1", "2", ".", "5">>, <<" ", "7">>, <<>> }
MinorChannelFields == { <<"0">>, <<"2", "5", "6">>, <<"1", "x">> }
AlphaFields ==
    { <<"1">>, <<"0">>, <<"1", ".", "0">>, <<"0", ".", "0">>, <<"1", "8", "0">>,
      <<"0", ".", "5">>, <<"0", ".", "2", "5">>, <<"0", ".", "7", "5">>,
      <<"1", ".", "5">>, <<"2", ".", "5">>, <<"2", "5", "5">>, <<"2", "5", "6">>,
      <<"-", "0", ".", "5">>, <<"-", "1">>, <<".", "5">>, <<"1", ".">>, <<".">>,
      <<"x">>, <<" ", "0", ".", "5", " ">>, <<"1", ".", "0", "0">>, <<>>,
      <<"0", ".", "5", ".">>, <<"-", "0", ".", "0">>,
      [k \in 1..(MaxFloatDigits + 1) |-> "9"] }
Openings ==
    { <<"r", "g", "b", "a", "(">>, <<"R", "G", "B", "A", "(">>, <<"r", "g", "b", "(">>,
      <<" ", "r", "g", "b", "a", "(">>, <<"r", "g", "b", "a", " ", "(">>, <<>> }
Closings == { <<")">>, <<")", " ">>, <<>>, <<")", "x">> }

\* the strings of SpecColor: four fields, and three and five
ColorStrings ==
    {o \o r \o <<",">> \o g \o <<",">> \o b \o <<",">> \o a \o c :
        o \in Openings, r \in ChannelFields, g \in MinorChannelFields,
        b \in MinorChannelFields, a \in AlphaFields, c \in Closings}
    \cup {o \o <<"1", ",", "2", ",", "3">> \o c : o \in Openings, c \in Closings}
    \cup {o \o <<"1", ",", "2", ",", "3", ",">> \o a \o <<",", "5">> \o c :
            o \in Openings, a \in AlphaFields, c \in Closings}
    \cup {<<>>, <<"r", "g", "b", "a", "(", ")">>, <<"r", "g", "b", "a", "(">>}

InitColor ==
    /\ ParseIdle /\ PipeIdle /\ FontIdle /\ OverlayIdle /\ EndpointIdle /\ DropboxIdle
    /\ rgba_str \in ColorStrings
    /\ color_pc = "call"
    /\ color_result = <<>>

\* one call of rgba_from_string
ParseColor ==
    /\ color_pc = "call"
    /\ LET res == rgba_from_string(rgba_str)
       IN /\ color_pc' = IF res.raised THEN "raised" ELSE "returned"
          /\ color_result' = res.value
    /\ UNCHANGED <<parse_vars, pipe_vars, font_vars, overlay_vars, endpoint_vars,
                   dropbox_vars, rgba_str>>

NextColor == ParseColor

SpecColor == InitColor /\ [][NextColor]_vars

----------------------------------------------------------------------------
(* The claims about rgba_from_string *)

\* the string has the rgba(...) wrapper
HasWrapper(s) ==
    /\ startswith(lower(strip(s)), <<"r", "g", "b", "a", "(">>)
    /\ endswith(lower(strip(s)), <<")">>)

\* the fields between the parentheses of a string that has the wrapper
FieldsOf(s) ==
    split_comma(SubSeq(lower(strip(s)), 6, Len(strip(s)) - 1), <<>>)

\* a decimal numeral: an optional sign, then digits with at most one point
IsNumeral(text) ==
    LET t == strip(text)
        body == IF t # <<>> /\ t[1] \in {"-", "+"} THEN Tail(t) ELSE t
    IN /\ \E k \in 1..Len(body) : body[k] \in Digits
       /\ \A k \in 1..Len(body) : body[k] \in Digits \cup {"."}
       /\ \A j, k \in 1..Len(body) : (body[j] = "." /\ body[k] = ".") => j = k

Malformed(s) ==
    \/ ~HasWrapper(s)
    \/ Len(FieldsOf(s)) # 4
    \/ \E k \in 1..Len(FieldsOf(s)) : ~IsNumeral(FieldsOf(s)[k])

\* C12: rgba_from_string never raises, and it returns (0, 0, 0, 180) for every
\* string without the rgba(...) wrapper, with a number of fields other than 4 or
\* with a field that is not a number.
C12_FallbackOnMalformed ==
    color_pc \notin {"idle", "call"} =>
        /\ color_pc = "returned"
        /\ Malformed(rgba_str) => color_result = <<0, 0, 0, 180>>

\* C12 witness: a string with the wrapper and five numeric fields was answered
\* with the fallback.
C12_Witness ==
    /\ color_pc = "returned"
    /\ HasWrapper(rgba_str) /\ Len(FieldsOf(rgba_str)) = 5
    /\ \A k \in 1..5 : IsNumeral(FieldsOf(rgba_str)[k])
    /\ color_result = <<0, 0, 0, 180>>

\* k is a nearest integer of factor * x (either one at a tie), x a parsed value
IsNearest(k, x, factor) ==
    LET n == IF x.neg THEN 0 - factor * x.numerator ELSE factor * x.numerator
        d == k * x.denominator - n
    IN 2 * (IF d < 0 THEN 0 - d ELSE d) <= x.denominator

\* c is v clamped to 0..255
IsClamped(c, v) == c = (IF v < 0 THEN 0 ELSE IF v > 255 THEN 255 ELSE v)

\* c is the channel of a field: its value times factor, rounded and clamped
\* (255 for a value beyond every float)
IsChannelOf(c, text, factor) ==
    LET x == float_of(text)
        f == (factor * x.numerator) \div x.denominator
    IN IF x.inf THEN c = (IF x.neg THEN 0 ELSE 255)
       ELSE \E k \in {f, f + 1, 0 - f, 0 - f - 1} :
               IsNearest(k, x, factor) /\ IsClamped(c, k)

\* the alpha field's text holds a point and its value lies in 0..1
IsFraction(text) ==
    LET x == float_of(text)
    IN /\ \E k \in 1..Len(text) : text[k] = "."
       /\ ~x.inf
       /\ (~x.neg \/ x.numerator = 0)
       /\ x.numerator <= x.denominator

\* the alpha returned is the one the rule gives for the alpha text
AlphaByRule ==
    LET a_text == strip(FieldsOf(rgba_str)[4])
    IN /\ IsChannelOf(color_result[4], a_text, IF IsFraction(a_text) THEN 255 ELSE 1)
       /\ a_text = <<"1">> => color_result[4] = 1
       /\ a_text = <<"1", ".", "0">> => color_result[4] = 255
       /\ a_text = <<"1", "8", "0">> => color_result[4] = 180
       /\ a_text = <<"0", ".", "5">> => color_result[4] \in {127, 128}

\* C13 (as claimed): for a well-formed string the alpha returned is round(255*a)
\* clamped to 0..255 when the alpha text holds a point and 0 <= a <= 1, and
\* round(a) clamped otherwise: 1 gives 1, 1.0 gives 255, 180 gives 180, 0.5 gives
\* 128 or 127; and every channel returned lies in 0..255.
C13_AlphaResolution ==
    color_pc = "returned" =>
        /\ \A k \in 1..4 : color_result[k] \in 0..255
        /\ ~Malformed(rgba_str) => AlphaByRule

\* the rule holds of every well-formed string whose fields are finite floats
AlphaResolutionFinite ==
    color_pc = "returned" =>
        /\ \A k \in 1..4 : color_result[k] \in 0..255
        /\ (~Malformed(rgba_str)
              /\ \A k \in 1..4 : ~float_of(FieldsOf(rgba_str)[k]).inf) => AlphaByRule

\* a colour with the alpha text 0.5 and a channel above 255 was returned with
\* alpha 128 and that channel 255
FractionAlphaReturned ==
    /\ color_pc = "returned" /\ ~Malformed(rgba_str)
    /\ strip(FieldsOf(rgba_str)[4]) = <<"0", ".", "5">>
    /\ strip(FieldsOf(rgba_str)[1]) = <<"3", "0", "0">>
    /\ color_result[4] = 128 /\ color_result[1] = 255

----------------------------------------------------------------------------
(* SpecFont: the loads of get_font_for_style *)

\* lines 76-114: FONT_FAMILY_PATHS; a path is <<family, style file>>
FontFamilies == {"Montserrat", "Nunito", "Poppins", "Roboto"}
FONT_FAMILY_PATHS ==
    [f \in FontFamilies |->
        [face \in {"Regular", "Bold", "Italic", "BoldItalic"} |-> <<f, face>>]]

\* lines 116-118
DEFAULT_FALLBACK_FONT_FAMILY == "Montserrat"
DEFAULT_FALLBACK_STYLE_PATH == FONT_FAMILY_PATHS[DEFAULT_FALLBACK_FONT_FAMILY]["Regular"]

\* lines 206 and 209: the last resorts
ArialPath == <<"system", "arial.ttf">>
SystemArialPath == <<"system", "/System/Library/Fonts/Arial.ttf">>

\* the mutant of family_map_of: an unknown family has the table of Roboto
family_map_roboto(name) ==
    IF name \in FontFamilies THEN FONT_FAMILY_PATHS[name] ELSE FONT_FAMILY_PATHS["Roboto"]

\* lines 158-159: FONT_FAMILY_PATHS.get(name, FONT_FAMILY_PATHS[default family])
family_map_of(name) ==
    IF name \in FontFamilies THEN FONT_FAMILY_PATHS[name]
    ELSE FONT_FAMILY_PATHS[DEFAULT_FALLBACK_FONT_FAMILY]

\* lines 155-170: the file of the requested style (every table has all four)
font_path_of(name, styles) == family_map_of(name)[face_of(styles)]

\* the family names of SpecFont: the four of the table and one that is not in it
FontFamilyNames == FontFamilies \cup {"Papyrus"}

\* the files a call can ask for
FontCandidates(name, styles) ==
    {font_path_of(name, styles), family_map_of(name)["Regular"],
     DEFAULT_FALLBACK_STYLE_PATH, ArialPath, SystemArialPath}

OtherIdleFont ==
    ParseIdle /\ PipeIdle /\ ColorIdle /\ OverlayIdle /\ EndpointIdle /\ DropboxIdle

InitFont ==
    /\ OtherIdleFont
    /\ font_family_name \in FontFamilyNames
    /\ font_styles \in SUBSET {"bold", "italic", "underline"}
    /\ loadable \in SUBSET FontCandidates(font_family_name, font_styles)
    /\ font_attempts = <<>>
    /\ font_pc = "requested"
    /\ font_returned = <<>>

other_than_font ==
    <<parse_vars, pipe_vars, color_vars, overlay_vars, endpoint_vars, dropbox_vars>>

\* ImageFont.truetype(path, base_size): return the font, or go on after IOError
TryLoad(path, next_pc) ==
    /\ font_attempts' = Append(font_attempts, path)
    /\ IF path \in loadable
       THEN font_pc' = "returned" /\ font_returned' = path
       ELSE font_pc' = next_pc /\ font_returned' = font_returned

SkipLoad(next_pc) ==
    /\ font_pc' = next_pc
    /\ UNCHANGED <<font_attempts, font_returned>>

\* lines 172-173: the requested style file
LoadRequested ==
    /\ font_pc = "requested"
    /\ TryLoad(font_path_of(font_family_name, font_styles), "regular")
    /\ UNCHANGED <<other_than_font, font_family_name, font_styles, loadable>>

\* lines 178-189: the family's Regular file, unless it is the file that failed
LoadRegular ==
    /\ font_pc = "regular"
    /\ IF font_path_of(font_family_name, font_styles)
            # family_map_of(font_family_name)["Regular"]
       THEN TryLoad(family_map_of(font_family_name)["Regular"], "default")
       ELSE SkipLoad("default")
    /\ UNCHANGED <<other_than_font, font_family_name, font_styles, loadable>>

\* lines 191-202: the default family's Regular file, unless it was tried above
LoadDefault ==
    /\ font_pc = "default"
    /\ IF /\ font_path_of(font_family_name, font_styles) # DEFAULT_FALLBACK_STYLE_PATH
          /\ family_map_of(font_family_name)["Regular"] # DEFAULT_FALLBACK_STYLE_PATH
       THEN TryLoad(DEFAULT_FALLBACK_STYLE_PATH, "arial")
       ELSE SkipLoad("arial")
    /\ UNCHANGED <<other_than_font, font_family_name, font_styles, loadable>>

\* lines 205-206: arial.ttf, looked up by the platform
LoadArial ==
    /\ font_pc = "arial"
    /\ TryLoad(ArialPath, "system_arial")
    /\ UNCHANGED <<other_than_font, font_family_name, font_styles, loadable>>

\* lines 208-214: /System/Library/Fonts/Arial.ttf, then raise Exception
LoadSystemArial ==
    /\ font_pc = "system_arial"
    /\ TryLoad(SystemArialPath, "raised")
    /\ UNCHANGED <<other_than_font, font_family_name, font_styles, loadable>>

NextFont ==
    \/ LoadRequested
    \/ LoadRegular
    \/ LoadDefault
    \/ LoadArial
    \/ LoadSystemArial

SpecFont == InitFont /\ [][NextFont]_vars

----------------------------------------------------------------------------
(* The claims about get_font_for_style *)

\* the built-in face of the imaging library: no file is read to load it
BuiltinFace == <<"builtin", "load_default">>

\* the table an unknown family is resolved through
ClaimedTable(name) ==
    IF name \in FontFamilies THEN name ELSE "Montserrat"

\* the step of the claimed chain a load belongs to: 1 the requested style file,
\* 2 the family's Regular, 3 the default family's Regular, 4 a platform system
\* font, 5 the built-in face (a file that serves as two steps counts for the first)
ClaimedStep(path) ==
    LET face == IF "bold" \in font_styles /\ "italic" \in font_styles THEN "BoldItalic"
                ELSE IF "bold" \in font_styles THEN "Bold"
                ELSE IF "italic" \in font_styles THEN "Italic" ELSE "Regular"
    IN IF path = <<ClaimedTable(font_family_name), face>> THEN 1
       ELSE IF path = <<ClaimedTable(font_family_name), "Regular">> THEN 2
       ELSE IF path = <<"Montserrat", "Regular">> THEN 3
       ELSE IF path[1] = "system" THEN 4
       ELSE IF path = BuiltinFace THEN 5
       ELSE 0

\* the loads were made in the order of the chain, each after the failure of the
\* one before, and the font returned is the one loaded last
LoadsInOrder ==
    /\ \A k \in 1..Len(font_attempts) : ClaimedStep(font_attempts[k]) \in 1..5
    /\ \A j, k \in 1..Len(font_attempts) :
          j < k => /\ ClaimedStep(font_attempts[j]) <= ClaimedStep(font_attempts[k])
                   /\ font_attempts[j] # font_attempts[k]
                   /\ font_attempts[j] \notin loadable
    /\ Len(font_attempts) >= 1 => ClaimedStep(font_attempts[1]) = 1
    /\ font_pc = "returned" =>
          /\ font_returned = font_attempts[Len(font_attempts)]
          /\ font_returned \in loadable
    /\ font_pc = "raised" => \A k \in 1..Len(font_attempts) : font_attempts[k] \notin loadable

\* C14 (as claimed): the loads are attempted in the order requested style file,
\* family Regular, default family Regular, a platform system font, a built-in
\* face; the first that succeeds is returned; the function raises only after all
\* five steps have failed; an unknown family goes through the default family's table.
C14_FallbackChain ==
    /\ LoadsInOrder
    /\ font_pc = "raised" =>
          \A step \in 1..5 : \E k \in 1..Len(font_attempts) :
              \/ ClaimedStep(font_attempts[k]) = step
              \/ \E f \in FontCandidates(font_family_name, font_styles) :
                    f = font_attempts[k] /\ step \in 1..3
                    /\ f = (CASE step = 1 -> <<ClaimedTable(font_family_name),
                                               face_of(font_styles)>>
                              [] step = 2 -> <<ClaimedTable(font_family_name), "Regular">>
                              [] OTHER -> <<"Montserrat", "Regular">>)

\* the chain of the files: the loads are in order, and the function raises only
\* after the requested file, the two Regular files and the two Arial paths failed
FallbackChainFiles ==
    /\ LoadsInOrder
    /\ font_pc = "raised" =>
          /\ loadable = {}
          /\ \A f \in FontCandidates(font_family_name, font_styles) :
                \E j \in 1..Len(font_attempts) : font_attempts[j] = f

\* a call for an unknown family and a bold run found only the default family's
\* Regular file, and returned it at the second load
UnknownFamilyFallsBack ==
    /\ font_pc = "returned" /\ font_family_name \notin FontFamilies
    /\ "bold" \in font_styles
    /\ font_attempts = <<<<"Montserrat", face_of(font_styles)>>, <<"Montserrat", "Regular">>>>

----------------------------------------------------------------------------
(* The claims about the renderer *)

\* C15 (as claimed): the first line is drawn at margin_top_px + (available - T) div 2
\* when 0 < T < available, else at margin_top_px, T being the block height of the
\* layout: the heights of all its RenderLines, the placeholders of blank lines
\* included (the sum the fit search accepted).
C15_BlockCentred ==
    Len(lines_drawn) >= 1 =>
        LET T == BlockHeight(final_renderable_lines_layout, best_font_size)
            available == bg_height - margin_top_px - margin_bottom_px
        IN lines_drawn[1].y
              = margin_top_px + (IF 0 < T /\ T < available THEN (available - T) \div 2 ELSE 0)

\* the layout holds the placeholder of a blank line
HasPlaceholder ==
    \E k \in 1..Len(final_renderable_lines_layout) : final_renderable_lines_layout[k].empty

\* the block is centred as claimed when the layout has no blank line
BlockCentredWithoutBlankLines ==
    (Len(lines_drawn) >= 1 /\ ~HasPlaceholder) =>
        LET T == BlockHeight(final_renderable_lines_layout, best_font_size)
            available == bg_height - margin_top_px - margin_bottom_px
        IN lines_drawn[1].y
              = margin_top_px + (IF 0 < T /\ T < available THEN (available - T) \div 2 ELSE 0)

RECURSIVE MaxAscentOf(_)
\* the largest ascent among the segments of a line
MaxAscentOf(segments) ==
    IF segments = <<>> THEN 0
    ELSE LET rest == MaxAscentOf(Tail(segments))
         IN IF segments[1].ascent > rest THEN segments[1].ascent ELSE rest

\* the y at which the renderer reached a line of the layout
LineTop(line) == (CHOOSE e \in {lines_drawn[k] : k \in 1..Len(lines_drawn)} : e.line = line).y

\* C16: in every line drawn, a segment's draw y plus its own ascent is the line's
\* top y plus the line's maximum ascent, so the segments of a line share a
\* baseline: two of them are |a1 - a2| pixels apart, none is above the line's top.
C16_SharedBaseline ==
    /\ \A k \in 1..Len(drawn) :
          LET d == drawn[k]
              segments == final_renderable_lines_layout[d.line].segments
          IN /\ d.y + d.ascent = LineTop(d.line) + MaxAscentOf(segments)
             /\ d.y >= LineTop(d.line)
    /\ \A j, k \in 1..Len(drawn) :
          drawn[j].line = drawn[k].line =>
              LET dy == drawn[j].y - drawn[k].y
                  da == drawn[j].ascent - drawn[k].ascent
              IN (IF dy < 0 THEN 0 - dy ELSE dy) = (IF da < 0 THEN 0 - da ELSE da)

\* C16 witness: two segments of different ascent were drawn in one line, at
\* different y.
C16_Witness ==
    /\ pc = "returned"
    /\ \E j, k \in 1..Len(drawn) :
          /\ drawn[j].line = drawn[k].line
          /\ drawn[j].ascent # drawn[k].ascent
          /\ drawn[j].y # drawn[k].y

\* the segments drawn that carry the underline style, by their position in drawn
UnderlinedDrawn == {k \in 1..Len(drawn) : "underline" \in drawn[k].styles}

\* the stroke of the segment drawn k-th
IsStrokeOf(stroke, k) ==
    /\ stroke.x1 = drawn[k].x
    /\ stroke.x2 = drawn[k].x + drawn[k].width
    /\ stroke.y = drawn[k].y + drawn[k].ascent + 2
    /\ stroke.line = drawn[k].line

\* C17: one stroke is drawn for every segment whose styles hold underline and none
\* for any other; it lies 2 pixels below the segment's baseline, from the segment's
\* start x to start x plus its width; two underlined units with a plain whitespace
\* unit of positive width between them give two strokes that far apart.
C17_UnderlinePerSegment ==
    /\ Len(underlines) = Cardinality(UnderlinedDrawn)
    /\ \A k \in UnderlinedDrawn :
          Cardinality({n \in 1..Len(underlines) : IsStrokeOf(underlines[n], k)}) = 1
    /\ \A n \in 1..Len(underlines) : \E k \in UnderlinedDrawn : IsStrokeOf(underlines[n], k)
    /\ \A k \in 1..(Len(drawn) - 2) :
          (/\ {k, k + 2} \subseteq UnderlinedDrawn /\ k + 1 \notin UnderlinedDrawn
           /\ drawn[k].line = drawn[k + 2].line
           /\ isspace(drawn[k + 1].text) /\ drawn[k + 1].width > 0) =>
              \E m, n \in 1..Len(underlines) :
                  /\ IsStrokeOf(underlines[m], k) /\ IsStrokeOf(underlines[n], k + 2)
                  /\ underlines[n].x1 - underlines[m].x2 = drawn[k + 1].width
                  /\ underlines[m].y = underlines[n].y

\* C17 witness: two underlined words with a plain space of positive width between
\* them were drawn in one line, with two strokes.
C17_Witness ==
    /\ pc = "returned" /\ Len(underlines) = 2
    /\ \E k \in 1..(Len(drawn) - 2) :
          /\ {k, k + 2} \subseteq UnderlinedDrawn /\ k + 1 \notin UnderlinedDrawn
          /\ drawn[k].line = drawn[k + 2].line
          /\ drawn[k + 1].width > 0
          /\ underlines[2].x1 > underlines[1].x2

----------------------------------------------------------------------------
(* _generate_background_once: the overlay band (src/main.py:295-358).      *)
(* background_height and transition_proportion are percentages here, as    *)
(* the request model keeps both within 0.0 .. 1.0 (lines 132, 137).        *)

MaxOverlayWidth == 2
MaxOverlayHeight == 11

OverlayBackgroundHeights == {0, 50, 100}
TransitionProportions == {0, 25, 50, 100}
\* "rgba(0, 0, 0, 180)" (the default), "rgba(1,2,3,255)", "rgba(9,8,7,45)",
\* "rgba(5,6,7,0)" and "red"
BackgroundColors ==
    { <<"r", "g", "b", "a", "(", "0", ",", " ", "0", ",", " ", "0", ",", " ",
        "1", "8", "0", ")">>,
      <<"r", "g", "b", "a", "(", "1", ",", "2", ",", "3", ",", "2", "5", "5", ")">>,
      <<"r", "g", "b", "a", "(", "9", ",", "8", ",", "7", ",", "4", "5", ")">>,
      <<"r", "g", "b", "a", "(", "5", ",", "6", ",", "7", ",", "0", ")">>,
      <<"r", "e", "d">> }

OverlayArgs ==
    [width : 1..MaxOverlayWidth, height : 1..MaxOverlayHeight,
     background_height : OverlayBackgroundHeights,
     background_color : BackgroundColors,
     text_position : TextPositions,
     transition_proportion : TransitionProportions]

\* line 302: bg_height = int(height * background_height)
band_height_of(args) == bg_height_of(args.height, args.background_height)
\* line 304: base_r, base_g, base_b, base_a = rgba_from_string(background_color)
base_rgba_of(args) == rgba_from_string(args.background_color).value
\* lines 305-306: Image.new("RGBA", (width, bg_height), base)
new_overlay(args) ==
    [y \in 1..band_height_of(args) |-> [x \in 1..args.width |-> base_rgba_of(args)]]
\* line 308: int(round(bg_height * transition_proportion))
transition_height_px_of(args) ==
    round_half_even(band_height_of(args) * args.transition_proportion, 100)

\* the alpha factors, as fractions
\* a zone of one row painted with the base alpha
bottom_alpha_factor_solid(y_coord, t) ==
    IF t = 1 THEN [numerator |-> 1, denominator |-> 1]
    ELSE [numerator |-> y_coord, denominator |-> t - 1]
\* lines 317-320: 0.0 for one row, else y_coord / (transition_height_px - 1.0)
bottom_alpha_factor(y_coord, t) ==
    IF t = 1 THEN [numerator |-> 0, denominator |-> 1]
    ELSE [numerator |-> y_coord, denominator |-> t - 1]
\* lines 331-335: 0.0 for one row, else (t - 1.0 - y_idx) / (t - 1.0)
top_alpha_factor(k, t) ==
    IF t = 1 THEN [numerator |-> 0, denominator |-> 1]
    ELSE [numerator |-> t - 1 - k, denominator |-> t - 1]
\* The alpha factor is a double, and so is its product with base_a
\* (lines 322, 337). The bits of the fraction of a double:
MantissaBits == 52

RECURSIVE pow2(_)
pow2(n) == IF n <= 0 THEN 1 ELSE 2 * pow2(n - 1)
RECURSIVE shifted_mod(_, _, _)
\* (k * 2^n) % q
shifted_mod(k, n, q) == IF n = 0 THEN k % q ELSE shifted_mod((2 * k) % q, n - 1, q)
RECURSIVE floor_log2(_)
floor_log2(n) == IF n <= 1 THEN 0 ELSE 1 + floor_log2(n \div 2)
RECURSIVE scale_of(_, _, _)
\* the least d >= from with k * 2^d >= q, for 0 < k
scale_of(k, q, from) == IF k * pow2(from) >= q THEN from ELSE scale_of(k, q, from + 1)

\* the double k / q of 0 < k <= q, against the exact quotient: the distance
\* in q-ths of the last place of the double, and the side the double is on
division_error(k, q) ==
    LET d == scale_of(k, q, 0)
        r == shifted_mod(k, MantissaBits + d, q)
    IN [scale |-> d,
        below |-> 2 * r < q,
        parts |-> IF 2 * r < q THEN r ELSE q - r]

\* int(round(base_a * alpha_factor)) of the doubles. Only when the exact
\* product is n + 1/2 can the error of the division show: the product of the
\* doubles is then n + 1/2 itself when the error is at most half the gap to
\* the next double, and the next double on the side of the quotient otherwise.
current_alpha_of(base_a, alpha_factor) ==
    LET k == alpha_factor.numerator
        q == alpha_factor.denominator
        exact == round_half_even(base_a * k, q)
        n == (base_a * k) \div q
        halfway == (2 * base_a * k) % q = 0 /\ ((2 * base_a * k) \div q) % 2 = 1
        err == division_error(k, q)
        E == IF n = 0 THEN 0 - 1 ELSE floor_log2(n)
        gap == IF n = 0 /\ err.below THEN 4 ELSE 2
    IN IF ~halfway \/ err.parts = 0 THEN exact
       ELSE IF gap * base_a * err.parts <= q * pow2(E + err.scale) THEN exact
       ELSE IF err.below THEN n ELSE n + 1

\* one iteration of the loop over the zone, the k-th (lines 316-325, 329-340)
paint_row(ov, args, t, k) ==
    LET base == base_rgba_of(args)
        bottom == args.text_position = "bottom"
        y_coord == IF bottom THEN k ELSE band_height_of(args) - t + k
        factor == IF bottom THEN bottom_alpha_factor(k, t) ELSE top_alpha_factor(k, t)
        current_alpha == current_alpha_of(base[4], factor)
    IN [ov EXCEPT ![y_coord + 1] =
            [x \in 1..args.width |-> <<base[1], base[2], base[3], current_alpha>>]]

\* line 309: the zone is painted at all
has_transition(args) == transition_height_px_of(args) > 0 /\ band_height_of(args) > 0

RECURSIVE paint_rows(_, _, _, _)
\* the iterations k, k + 1, ... of the loop
paint_rows(ov, args, t, k) ==
    IF k >= t THEN ov ELSE paint_rows(paint_row(ov, args, t, k), args, t, k + 1)

\* the overlay _generate_background_once returns
generate_overlay(args) ==
    IF has_transition(args)
    THEN paint_rows(new_overlay(args), args, transition_height_px_of(args), 0)
    ELSE new_overlay(args)

OtherIdleOverlay ==
    ParseIdle /\ PipeIdle /\ ColorIdle /\ FontIdle /\ EndpointIdle /\ DropboxIdle
other_than_overlay ==
    <<parse_vars, pipe_vars, color_vars, font_vars, endpoint_vars, dropbox_vars>>

InitOverlay ==
    /\ OtherIdleOverlay
    /\ overlay_args \in OverlayArgs
    /\ overlay = <<>>
    /\ transition_height_px = 0
    /\ y_idx = 0
    /\ overlay_pc = "call"

\* lines 302-309: the band in the base colour, and the height of the zone
CreateOverlay ==
    /\ overlay_pc = "call"
    /\ overlay' = new_overlay(overlay_args)
    /\ transition_height_px' = transition_height_px_of(overlay_args)
    /\ y_idx' = 0
    /\ overlay_pc' = IF has_transition(overlay_args) THEN "paint" ELSE "compose"
    /\ UNCHANGED <<other_than_overlay, overlay_args>>

\* lines 315-340: one row of the zone
PaintRow ==
    /\ overlay_pc = "paint"
    /\ y_idx < transition_height_px
    /\ overlay' = paint_row(overlay, overlay_args, transition_height_px, y_idx)
    /\ y_idx' = y_idx + 1
    /\ overlay_pc' = IF y_idx + 1 < transition_height_px THEN "paint" ELSE "compose"
    /\ UNCHANGED <<other_than_overlay, overlay_args, transition_height_px>>

\* lines 342-358: the band is pasted on a copy of the image and returned
ReturnOverlay ==
    /\ overlay_pc = "compose"
    /\ overlay_pc' = "returned"
    /\ UNCHANGED <<other_than_overlay, overlay_args, overlay, transition_height_px, y_idx>>

NextOverlay == CreateOverlay \/ PaintRow \/ ReturnOverlay

SpecOverlay == InitOverlay /\ [][NextOverlay]_vars

----------------------------------------------------------------------------
(* The claims about the overlay *)

\* the pixels of the row y (0 is the top row) of an overlay
RowOf(ov, y) == ov[y + 1]
\* the row y is all in the colour c
RowIs(ov, y, c) == \A x \in 1..Len(RowOf(ov, y)) : RowOf(ov, y)[x] = c
\* the row y has the alpha a everywhere
RowAlphaIs(ov, y, a) == \A x \in 1..Len(RowOf(ov, y)) : RowOf(ov, y)[x][4] = a
\* a is a nearest integer of n / q (either one at a tie)
IsNearestOfRatio(a, n, q) ==
    LET d == a * q - n IN 2 * (IF d < 0 THEN 0 - d ELSE d) <= q
\* the rows in the reverse order
Mirror(ov) == [y \in 1..Len(ov) |-> ov[Len(ov) + 1 - y]]
OverlayBase == base_rgba_of(overlay_args)
OverlayBand == band_height_of(overlay_args)

\* the overlay returned is the one the loop builds, whatever the steps
OverlayReturnedIsGenerated ==
    overlay_pc = "returned" => overlay = generate_overlay(overlay_args)

\* round(n / q) with the ties away from zero, for a value that is not negative
RoundHalfUp(n, q) == (2 * n + q) \div (2 * q)
\* a is round(n / q), the ties to the even integer or away from zero
IsRounded(a, n, q) == a = round_half_even(n, q) \/ a = RoundHalfUp(n, q)

\* the statement about the gradient, for a reading `Is` of round: Is(a, n, q)
\* says that the alpha a is n / q rounded
GradientOf(Is(_, _, _)) ==
    (overlay_pc = "returned" /\ transition_height_px >= 2) =>
        LET t == transition_height_px
            A == OverlayBase[4]
            bottom_args == [overlay_args EXCEPT !.text_position = "bottom"]
        IN /\ Len(overlay) = OverlayBand
           /\ \A y \in 0..(OverlayBand - 1) : \A x \in 1..Len(RowOf(overlay, y)) :
                \A c \in 1..3 : RowOf(overlay, y)[x][c] = OverlayBase[c]
           /\ overlay_args.text_position = "bottom" =>
                /\ \A y \in 0..(t - 1) : \E a \in 0..255 :
                      /\ RowAlphaIs(overlay, y, a)
                      /\ Is(a, A * y, t - 1)
                /\ RowAlphaIs(overlay, 0, 0)
                /\ RowAlphaIs(overlay, t - 1, A)
                /\ \A y \in 0..(t - 2) :
                      RowOf(overlay, y)[1][4] <= RowOf(overlay, y + 1)[1][4]
                /\ \A y \in t..(OverlayBand - 1) : RowIs(overlay, y, OverlayBase)
           /\ overlay_args.text_position = "top" =>
                /\ overlay = Mirror(generate_overlay(bottom_args))
                /\ \A y \in 0..(OverlayBand - t - 1) : RowIs(overlay, y, OverlayBase)
                /\ \A y \in (OverlayBand - t)..(OverlayBand - 1) : \E a \in 0..255 :
                      /\ RowAlphaIs(overlay, y, a)
                      /\ Is(a, A * (OverlayBand - 1 - y), t - 1)

\* C18: with a zone of t >= 2 rows and the base alpha A, the bottom anchor
\* paints the rows 0..t-1, the row y with alpha round(A*y/(t-1)): 0 at row 0,
\* A at row t-1 and never decreasing; the top anchor paints the rows
\* bg_height-t..bg_height-1 and gives the vertical mirror of the overlay of
\* the bottom anchor; the rows outside the zone keep the base RGBA, and
\* every pixel keeps the base RGB
C18_Gradient == GradientOf(IsRounded)

\* what holds of the gradient: all of it, with the alpha of a row a nearest
\* integer of A*y/(t-1), which at a half is the one or the other
GradientNearest == GradientOf(IsNearestOfRatio)

\* the row whose alpha is the integer below the half A*y/(t-1) = 31.5
GradientRoundedDown ==
    ~(/\ overlay_pc = "returned"
      /\ overlay_args.text_position = "bottom"
      /\ transition_height_px = 11
      /\ OverlayBase[4] = 45
      /\ RowAlphaIs(overlay, 7, 31))

\* C19: a zone of exactly one row has alpha 0 in that row, for both anchors;
\* when the height of the zone or of the band is <= 0 every pixel of the
\* overlay is the base RGBA
C19_OneRowAndNoZone ==
    overlay_pc = "returned" =>
        /\ transition_height_px = 1 =>
              LET y == IF overlay_args.text_position = "bottom" THEN 0
                       ELSE OverlayBand - 1
              IN RowAlphaIs(overlay, y, 0)
        /\ (transition_height_px <= 0 \/ OverlayBand <= 0) =>
              /\ Len(overlay) = OverlayBand
              /\ \A y \in 0..(OverlayBand - 1) :
                    /\ Len(RowOf(overlay, y)) = overlay_args.width
                    /\ RowIs(overlay, y, OverlayBase)

\* a zone of one row in a band of several rows whose colour is not transparent
C19_Witness ==
    /\ overlay_pc = "returned"
    /\ transition_height_px = 1
    /\ OverlayBand >= 2
    /\ OverlayBase[4] > 0
    /\ overlay_args.text_position = "bottom"

----------------------------------------------------------------------------
(* caption_image: one /caption-image request (src/main.py:642-720), and    *)
(* _process_text_and_upload in the worker processes of its pool            *)
(* (lines 579-631). A caption pipeline is kept to its outcome here.        *)

MaxTexts == 2
MaxRequestHeight == 2

\* the texts of a request: none, one, ...
RequestTexts == {[k \in 1..n |-> k] : n \in 0..MaxTexts}
\* the image fetched and the overlay parameters of the request
RequestOverlayArgs ==
    [width : {1}, height : {MaxRequestHeight},
     background_height : {100},
     background_color :
        {<<"r", "g", "b", "a", "(", "1", ",", "2", ",", "3", ",", "2", "5", "5", ")">>},
     text_position : TextPositions,
     transition_proportion : {0, 100}]
\* dropbox_dir is a folder (TRUE) or None
Requests ==
    [texts : RequestTexts, overlay_args : RequestOverlayArgs, dropbox_dir : BOOLEAN]

\* lines 651-652 and 712: where a failed fetch goes on
after_fetch_unchecked(outcome) == "open"
\* lines 651-652 and 712-716: requests.get and raise_for_status; a
\* RequestException ends the request with the status 400
after_fetch(outcome) == IF outcome = "ok" THEN "open" ELSE "http_400"

\* lines 670-672: overlay_image.save(buffer, format="PNG")
png_bytes(image) == [format |-> "PNG", height |-> Len(image), data |-> image]
\* line 594: Image.open(io.BytesIO(overlay_image_bytes))
png_open(bytes) == bytes.data

\* what a caption pipeline and the uploads after it can do for one text:
\* the pipeline returns or raises; get_dbx_client_cached returns or raises;
\* each upload_and_get_link returns a link or None
WorkerOutcomes(dropbox_dir) ==
    IF dropbox_dir
    THEN [pipeline : {"raised"}, client : {"unused"},
          text_only : {"unused"}, final_combined : {"unused"}]
         \cup [pipeline : {"ok"}, client : {"raised"},
               text_only : {"unused"}, final_combined : {"unused"}]
         \cup [pipeline : {"ok"}, client : {"ok"},
               text_only : {"link", "none"}, final_combined : {"link", "none"}]
    ELSE [pipeline : {"ok", "raised"}, client : {"unused"},
          text_only : {"unused"}, final_combined : {"unused"}]

\* src/scripts/dropbox_utils.py:38-56: the temporary link of an upload, or
\* None when the upload or the link failed
upload_and_get_link(outcome, kind, text_index) ==
    IF outcome = "link" THEN <<"link", kind, text_index>> ELSE <<"None">>

\* lines 628-631 without the handler: the exception leaves the worker
process_result_uncaught(text, text_index, dropbox_dir, out) ==
    IF out.pipeline = "raised" \/ (dropbox_dir /\ out.client = "raised")
    THEN [raised |-> TRUE]
    ELSE [raised |-> FALSE, success |-> TRUE,
          text_only |-> <<"b64", "text_only", text>>,
          final_combined |-> <<"b64", "final_combined", text>>]
\* lines 592-631: what _process_text_and_upload returns for a text
process_result(text, text_index, dropbox_dir, out) ==
    IF out.pipeline = "raised"
    THEN [raised |-> FALSE, success |-> FALSE, error |-> <<"pipeline", text>>]
    ELSE IF ~dropbox_dir
    THEN [raised |-> FALSE, success |-> TRUE,
          text_only |-> <<"b64", "text_only", text>>,
          final_combined |-> <<"b64", "final_combined", text>>]
    ELSE IF out.client = "raised"
    THEN [raised |-> FALSE, success |-> FALSE, error |-> <<"client">>]
    ELSE [raised |-> FALSE, success |-> TRUE,
          text_only |-> upload_and_get_link(out.text_only, "text_only", text_index),
          final_combined |->
              upload_and_get_link(out.final_combined, "final_combined", text_index)]

\* the results in the order in which the calls finished
gather_as_completed(calls, finished) == [k \in 1..Len(finished) |-> calls[finished[k]].result]
\* line 695: asyncio.gather gives the results in the order of the calls
gather(calls, finished) == [i \in 1..Len(calls) |-> calls[i].result]

IsFinished(e) == e.kind = "finished"
IsBuild(e) == e.kind \in {"build", "built"}
\* the calls in the order in which they finished
finished_order ==
    LET done == SelectSeq(events, IsFinished)
    IN [k \in 1..Len(done) |-> done[k].task]

OtherIdleEndpoint ==
    ParseIdle /\ PipeIdle /\ ColorIdle /\ FontIdle /\ OverlayIdle /\ DropboxIdle
\* _generate_background_once runs within the request
other_than_endpoint == <<parse_vars, pipe_vars, color_vars, font_vars, dropbox_vars>>

InitEndpoint ==
    /\ OtherIdleEndpoint
    /\ req \in Requests
    /\ endpoint_pc = "fetch"
    /\ overlay_image = <<>>
    /\ overlay_image_bytes = <<>>
    /\ tasks = <<>>
    /\ response = <<>>
    /\ events = <<>>

\* lines 651-652: the image is fetched, or the fetch raises
FetchImage ==
    /\ endpoint_pc = "fetch"
    /\ \E outcome \in {"ok", "request_exception"} :
          /\ endpoint_pc' = after_fetch(outcome)
          /\ events' = Append(events, [kind |-> "fetch", outcome |-> outcome])
    /\ UNCHANGED <<other_than_endpoint, overlay_vars, req, overlay_image, overlay_image_bytes, tasks,
                   response>>

\* line 653: Image.open(...).convert("RGBA"); what is not an image ends the
\* request with the status 500 (line 717)
OpenImage ==
    /\ endpoint_pc = "open"
    /\ \E outcome \in {"ok", "not_an_image"} :
          /\ endpoint_pc' = IF outcome = "ok" THEN "build" ELSE "http_500"
          /\ events' = Append(events, [kind |-> "open", outcome |-> outcome])
    /\ UNCHANGED <<other_than_endpoint, overlay_vars, req, overlay_image, overlay_image_bytes, tasks,
                   response>>

\* lines 655-660: _generate_background_once is called; CreateOverlay,
\* PaintRow and ReturnOverlay are its steps
CallBuild ==
    /\ endpoint_pc = "build"
    /\ overlay_pc = "idle"
    /\ overlay_args' = req.overlay_args
    /\ overlay_pc' = "call"
    /\ endpoint_pc' = "building"
    /\ events' = Append(events, [kind |-> "build"])
    /\ UNCHANGED <<other_than_endpoint, overlay, transition_height_px, y_idx,
                   req, overlay_image, overlay_image_bytes, tasks,
                   response>>

\* lines 661-664: the overlay it returned
BuildReturned ==
    /\ endpoint_pc = "building"
    /\ overlay_pc = "returned"
    /\ overlay_image' = overlay
    /\ endpoint_pc' = "serialise"
    /\ events' = Append(events, [kind |-> "built", overlay |-> overlay])
    /\ UNCHANGED <<other_than_endpoint, overlay_vars, req, overlay_image_bytes, tasks,
                   response>>

\* lines 666-676: the image and the overlay as PNG bytes. An overlay
\* without rows may be refused by the encoder (status 500, line 717).
SerialiseImages ==
    /\ endpoint_pc = "serialise"
    /\ \E saved \in (IF Len(overlay_image) = 0 THEN BOOLEAN ELSE {TRUE}) :
          IF saved
          THEN /\ overlay_image_bytes' = png_bytes(overlay_image)
               /\ endpoint_pc' = IF Len(req.texts) = 0 THEN "gather" ELSE "submit"
               /\ events' = Append(events, [kind |-> "serialise", outcome |-> "ok"])
          ELSE /\ overlay_image_bytes' = overlay_image_bytes
               /\ endpoint_pc' = "http_500"
               /\ events' = Append(events, [kind |-> "serialise", outcome |-> "raised"])
    /\ UNCHANGED <<other_than_endpoint, overlay_vars, req, overlay_image, tasks,
                   response>>

\* lines 677-693: loop.run_in_executor for the next text
SubmitTask ==
    /\ endpoint_pc = "submit"
    /\ Len(tasks) < Len(req.texts)
    /\ tasks' = Append(tasks, [text_index |-> Len(tasks),
                               text_content |-> req.texts[Len(tasks) + 1],
                               overlay_image_bytes |-> overlay_image_bytes,
                               state |-> "queued",
                               overlay_image |-> <<>>,
                               started_at |-> 0,
                               outcome |-> <<>>,
                               result |-> <<>>])
    /\ endpoint_pc' = IF Len(tasks) + 1 < Len(req.texts) THEN "submit" ELSE "gather"
    /\ UNCHANGED <<other_than_endpoint, overlay_vars, req, overlay_image,
                   overlay_image_bytes, response, events>>

\* lines 592-594: a worker process takes a call and opens its two images;
\* started_at is the number of "build" and "built" events at that time
StartPipeline ==
    /\ \E i \in 1..Len(tasks) :
          /\ tasks[i].state = "queued"
          /\ tasks' = [tasks EXCEPT
                          ![i].state = "running",
                          ![i].overlay_image = png_open(tasks[i].overlay_image_bytes),
                          ![i].started_at = Len(SelectSeq(events, IsBuild))]
    /\ UNCHANGED <<other_than_endpoint, overlay_vars, req, endpoint_pc, overlay_image,
                   overlay_image_bytes, response, events>>

\* lines 596-631: the caption pipeline and the uploads; the call returns its
\* item (a call that an exception left would never be gathered)
FinishPipeline ==
    /\ \E i \in 1..Len(tasks) : \E out \in WorkerOutcomes(req.dropbox_dir) :
          LET res == process_result(tasks[i].text_content, tasks[i].text_index,
                                    req.dropbox_dir, out)
          IN /\ tasks[i].state = "running"
             /\ tasks' = [tasks EXCEPT ![i].state = IF res.raised THEN "failed" ELSE "done",
                                       ![i].outcome = out,
                                       ![i].result = res]
             /\ events' = Append(events, [kind |-> "finished", task |-> i])
    /\ UNCHANGED <<other_than_endpoint, overlay_vars, req, endpoint_pc, overlay_image,
                   overlay_image_bytes, response>>

\* lines 695-710: asyncio.gather returns when every call has, and the
\* request is answered
GatherResults ==
    /\ endpoint_pc = "gather"
    /\ \A i \in 1..Len(tasks) : tasks[i].state = "done"
    /\ endpoint_pc' = "responded"
    /\ response' = [images |-> gather(tasks, finished_order)]
    /\ UNCHANGED <<other_than_endpoint, overlay_vars, req, overlay_image,
                   overlay_image_bytes, tasks, events>>

NextEndpoint ==
    \/ FetchImage
    \/ OpenImage
    \/ CallBuild
    \/ CreateOverlay
    \/ PaintRow
    \/ ReturnOverlay
    \/ BuildReturned
    \/ SerialiseImages
    \/ SubmitTask
    \/ StartPipeline
    \/ FinishPipeline
    \/ GatherResults

SpecEndpoint == InitEndpoint /\ [][NextEndpoint]_vars

----------------------------------------------------------------------------
(* The claim about the request *)

\* the positions of the events of a kind
EventsOf(kind) == {k \in 1..Len(events) : events[k].kind = kind}
\* the image of the request was fetched: requests.get answered and the
\* content was opened as an image
ImageFetched ==
    /\ \E k \in EventsOf("fetch") : events[k].outcome = "ok"
    /\ \E k \in EventsOf("open") : events[k].outcome = "ok"
\* the fetch failed: the request raised, or what came is not an image
FetchFailed ==
    \/ \E k \in EventsOf("fetch") : events[k].outcome /= "ok"
    \/ \E k \in EventsOf("open") : events[k].outcome /= "ok"

\* the caption pipelines that were started
Started == {i \in 1..Len(tasks) : tasks[i].state /= "queued"}

\* C20: a request whose image fetch succeeded builds the overlay exactly
\* once, before any caption pipeline is started, and every caption pipeline
\* receives that overlay, whatever the number of texts (none too); after a
\* failed fetch neither the overlay build nor a caption pipeline runs
C20_OverlayBuiltOnce ==
    /\ Cardinality(EventsOf("build")) <= 1
    /\ Cardinality(EventsOf("built")) <= Cardinality(EventsOf("build"))
    /\ (ImageFetched /\ endpoint_pc /= "build") => Cardinality(EventsOf("build")) = 1
    /\ (ImageFetched /\ endpoint_pc \notin {"build", "building"}) =>
          Cardinality(EventsOf("built")) = 1
    /\ \A i \in Started :
          /\ tasks[i].started_at = 2
          /\ \E j \in EventsOf("built") : tasks[i].overlay_image = events[j].overlay
    /\ \A i, j \in 1..Len(tasks) :
          i /= j => tasks[i].text_index /= tasks[j].text_index
    /\ endpoint_pc = "responded" => Cardinality(Started) = Len(req.texts)
    /\ FetchFailed => EventsOf("build") = {} /\ tasks = <<>>

\* a request of two texts answered, both pipelines run on an overlay with a
\* transparent row
C20_Witness ==
    /\ endpoint_pc = "responded"
    /\ Len(req.texts) = 2
    /\ Cardinality(Started) = 2
    /\ Len(overlay_image) = 2
    /\ overlay_image[1][1][4] /= overlay_image[2][1][4]

\* the item is what a run on the i-th text gives: its artifacts, its links
\* or its error carry that text or its index
ItemIsOf(item, i) ==
    /\ ~item.raised
    /\ item.success =>
          \A a \in {item.text_only, item.final_combined} :
              \/ a[1] = "b64" /\ a[3] = req.texts[i]
              \/ a[1] = "link" /\ a[3] = i - 1
              \/ a = <<"None">> /\ tasks[i].outcome.client = "ok"
    /\ ~item.success =>
          \/ item.error = <<"pipeline", req.texts[i]>>
          \/ item.error = <<"client">> /\ tasks[i].outcome.client = "raised"
    /\ item = tasks[i].result

\* C21: whatever the order in which the N calls finish, the images of the
\* answer are N items, the i-th being the result of the run on texts[i]
C21_ResultsInInputOrder ==
    endpoint_pc = "responded" =>
        /\ Len(response.images) = Len(req.texts)
        /\ \A i \in 1..Len(req.texts) : ItemIsOf(response.images[i], i)

\* an answer of two items whose second call finished first
C21_Witness ==
    /\ endpoint_pc = "responded"
    /\ Len(response.images) = 2
    /\ finished_order = <<2, 1>>
    /\ response.images[1] /= response.images[2]

\* the calls that have finished
Finished == {i \in 1..Len(tasks) : tasks[i].state \notin {"queued", "running"}}
\* the item of a call whose pipeline did not raise, from what its own
\* uploads did
ItemOfOwnRun(i) ==
    IF ~req.dropbox_dir
    THEN [raised |-> FALSE, success |-> TRUE,
          text_only |-> <<"b64", "text_only", req.texts[i]>>,
          final_combined |-> <<"b64", "final_combined", req.texts[i]>>]
    ELSE IF tasks[i].outcome.client = "raised"
    THEN [raised |-> FALSE, success |-> FALSE, error |-> <<"client">>]
    ELSE [raised |-> FALSE, success |-> TRUE,
          text_only |-> IF tasks[i].outcome.text_only = "link"
                        THEN <<"link", "text_only", i - 1>> ELSE <<"None">>,
          final_combined |-> IF tasks[i].outcome.final_combined = "link"
                             THEN <<"link", "final_combined", i - 1>> ELSE <<"None">>]

C28_LinksOrFailure ==
    req /= <<>> /\ req.dropbox_dir =>
        \A i \in Finished :
            /\ tasks[i].result.success =>
                  /\ tasks[i].result.text_only[1] = "link"
                  /\ tasks[i].result.final_combined[1] = "link"
            /\ ("none" \in {tasks[i].outcome.text_only, tasks[i].outcome.final_combined}) =>
                  ~tasks[i].result.success

\* what holds instead: an item with success true has a link for every upload
\* that worked and None for every upload that failed
LinksWhereUploaded ==
    req /= <<>> /\ req.dropbox_dir =>
        \A i \in Finished :
            tasks[i].result.success =>
                /\ tasks[i].result.text_only[1] = "link"
                      <=> tasks[i].outcome.text_only = "link"
                /\ tasks[i].result.final_combined[1] = "link"
                      <=> tasks[i].outcome.final_combined = "link"

----------------------------------------------------------------------------
(* upload_bytes (src/scripts/dropbox_utils.py:138-164) *)

MaxRetries == 4

\* line 147: range(1, max(1, retries) + 1)
last_attempt_of(r) == Max(1, r)
\* a retry after every failure
may_retry_always(n, r) == TRUE
\* line 158: attempt < retries
may_retry(n, r) == n < r

DropboxOtherIdle ==
    ParseIdle /\ PipeIdle /\ ColorIdle /\ FontIdle /\ OverlayIdle /\ EndpointIdle
other_than_dropbox ==
    <<parse_vars, pipe_vars, color_vars, font_vars, overlay_vars, endpoint_vars>>

InitUpload ==
    /\ DropboxOtherIdle /\ VideoIdle
    /\ retries \in (0 - 1)..MaxRetries
    /\ attempt = 1
    /\ upload_pc = "try"
    /\ upload_log = <<>>

\* lines 148-163: one attempt: files_upload, then files_get_metadata; either
\* may raise
TryUpload ==
    /\ upload_pc = "try"
    /\ \E outcome \in {"ok", "upload_raised", "metadata_raised"} :
          /\ upload_log' = Append(upload_log,
                [kind |-> "attempt", attempt |-> attempt, outcome |-> outcome])
          /\ upload_pc' = IF outcome = "ok" THEN "returned"
                          ELSE IF may_retry(attempt, retries) THEN "sleep"
                          ELSE "raised"
    /\ UNCHANGED <<other_than_dropbox, video_vars, retries, attempt>>

\* lines 159-161 and 147: time.sleep, then the next attempt, or line 164
\* when the range is used up
SleepAndRetry ==
    /\ upload_pc = "sleep"
    /\ upload_log' = Append(upload_log, [kind |-> "sleep", attempt |-> attempt])
    /\ IF attempt + 1 <= last_attempt_of(retries)
       THEN attempt' = attempt + 1 /\ upload_pc' = "try"
       ELSE attempt' = attempt /\ upload_pc' = "raised"
    /\ UNCHANGED <<other_than_dropbox, video_vars, retries>>

NextUpload == TryUpload \/ SleepAndRetry

SpecUpload == InitUpload /\ [][NextUpload]_vars

\* the positions of the attempts in the log, and of those that failed
Attempts == {k \in 1..Len(upload_log) : upload_log[k].kind = "attempt"}
FailedAttempts == {k \in Attempts : upload_log[k].outcome /= "ok"}
UploadOver == upload_pc \in {"returned", "raised"}

\* C30: upload_bytes with retries = r makes at most max(1, r) attempts;
\* it returns right after the first attempt whose upload and metadata check
\* both worked, without a further attempt; it sleeps only between two
\* attempts, never after the last; and it raises RuntimeError exactly when
\* every attempt failed
C30_BoundedRetries ==
    /\ Cardinality(Attempts) <= Max(1, retries)
    /\ \A k \in Attempts \ FailedAttempts :
          k = Len(upload_log) /\ upload_pc = "returned"
    /\ upload_pc = "returned" =>
          Attempts \ FailedAttempts = {Len(upload_log)}
    /\ \A k \in 1..Len(upload_log) : upload_log[k].kind = "sleep" =>
          /\ k - 1 \in FailedAttempts
          /\ UploadOver => k + 1 \in Attempts
          /\ k = Len(upload_log) => upload_pc = "try"
    /\ upload_pc = "raised" =>
          Attempts = FailedAttempts /\ Cardinality(Attempts) = Max(1, retries)
    /\ (UploadOver /\ Attempts = FailedAttempts) => upload_pc = "raised"

\* three attempts, the first two failed and were slept after, the third
\* worked
C30_Witness ==
    /\ upload_pc = "returned"
    /\ retries = 4
    /\ Cardinality(Attempts) = 3
    /\ Cardinality(FailedAttempts) = 2
    /\ Len(upload_log) = 5

----------------------------------------------------------------------------
(* generate_video and generate_video_from_script (src/main.py:723-877) *)

MaxTextImages == 2

\* save_to_dropbox, whether audio_dropbox_path is given, and the files of
\* the text_only folder
VideoRequests ==
    [save_to_dropbox : BOOLEAN, audio : BOOLEAN, text_images : 0..MaxTextImages]

\* lines 830-833: the except of generate_video_from_script logs the
\* exception of a step, and the function returns
after_failure(step) == "task_done"
\* lines 773, 782: after the text images
after_text_images(r) == IF r.audio THEN "music" ELSE "script"
\* lines 813-824: after the script
after_script(r) == IF r.save_to_dropbox THEN "upload" ELSE "task_done"

InitVideo ==
    /\ DropboxOtherIdle /\ UploadIdle
    /\ video_req \in VideoRequests
    /\ video_pc = "tempdir"
    /\ video_downloaded = 0
    /\ video_failure = "none"
    /\ video_response = <<>>

\* line 738: tempfile.TemporaryDirectory(), outside the try: its exception
\* reaches generate_video (lines 874-877)
MakeTempDir ==
    /\ video_pc = "tempdir"
    /\ \E ok \in BOOLEAN :
          /\ video_pc' = IF ok THEN "client" ELSE "http_500"
          /\ video_failure' = IF ok THEN "none" ELSE "tempdir"
    /\ UNCHANGED <<other_than_dropbox, upload_vars, video_req, video_downloaded,
                   video_response>>

\* a step of the try block that works or raises
VideoStep(step, next_pc) ==
    /\ video_pc = step
    /\ \E ok \in BOOLEAN :
          /\ video_pc' = IF ok THEN next_pc ELSE after_failure(step)
          /\ video_failure' = IF ok THEN "none" ELSE step
    /\ UNCHANGED <<other_than_dropbox, upload_vars, video_req, video_downloaded,
                   video_response>>

\* line 740: get_dbx_client_cached
GetClient == VideoStep("client", "background")
\* line 759: the background image
DownloadBackground == VideoStep("background", "text_images")
\* lines 766-770: the folder is listed and its files are downloaded, one
\* by one
DownloadTextImage ==
    /\ video_pc = "text_images"
    /\ \E ok \in BOOLEAN :
          IF ~ok
          THEN /\ video_pc' = after_failure("text_images")
               /\ video_failure' = "text_images"
               /\ video_downloaded' = video_downloaded
          ELSE /\ video_failure' = "none"
               /\ IF video_downloaded < video_req.text_images
                  THEN /\ video_downloaded' = video_downloaded + 1
                       /\ video_pc' = "text_images"
                  ELSE /\ video_downloaded' = video_downloaded
                       /\ video_pc' = after_text_images(video_req)
    /\ UNCHANGED <<other_than_dropbox, upload_vars, video_req, video_response>>
\* lines 773-780: the music
DownloadMusic == VideoStep("music", "script")
\* lines 783-821: create_vid.sh; an exit code other than 0 raises
RunScript == VideoStep("script", after_script(video_req))
\* lines 824-828: upload_to_dropbox
UploadVideo == VideoStep("upload", "task_done")

\* lines 852-872: generate_video_from_script returned, and the request is
\* answered
RespondVideo ==
    /\ video_pc = "task_done"
    /\ video_pc' = "responded"
    /\ video_response' =
          IF video_req.save_to_dropbox
          THEN [message |-> "Video generation completed successfully.",
                dropbox_video_path |-> "generated_video.mp4"]
          ELSE [message |-> "Video generation completed. File saved locally but not uploaded to Dropbox."]
    /\ UNCHANGED <<other_than_dropbox, upload_vars, video_req, video_downloaded,
                   video_failure>>

NextVideo ==
    \/ MakeTempDir
    \/ GetClient
    \/ DownloadBackground
    \/ DownloadTextImage
    \/ DownloadMusic
    \/ RunScript
    \/ UploadVideo
    \/ RespondVideo

SpecVideo == InitVideo /\ [][NextVideo]_vars

\* C29: when a step of generate_video_from_script fails (a download, the
\* script, the upload), the request ends with the status 500 and is not
\* answered with the message of a completed generation nor with a
\* dropbox_video_path
C29_FailureIs500 ==
    (video_failure /= "none" /\ video_pc \in {"responded", "http_500"}) =>
        /\ video_pc = "http_500"
        /\ video_response = <<>>

\* what holds instead: every request that got its temporary directory is
\* answered as completed, and only the one that did not ends with 500
VideoAlwaysCompleted ==
    /\ video_pc = "http_500" <=> video_failure = "tempdir"
    /\ video_pc = "responded" =>
          /\ video_failure /= "tempdir"
          /\ "dropbox_video_path" \in DOMAIN video_response <=> video_req.save_to_dropbox

----------------------------------------------------------------------------
(* The caption pipeline: the accepted layout *)

\* the RenderLine opens with an unbreakable unit wider than the line
StartsTooWide(entry) ==
    /\ ~entry.empty
    /\ ~isspace(entry.segments[1].text)
    /\ entry.segments[1].width > usable_width

\* C27: a candidate size is rejected whenever a non-whitespace unit wider than
\* width - 2*margin_x_px is the first unit of a RenderLine, the RenderLine opened
\* by a wrap included; hence no RenderLine of an accepted layout starts with a
\* non-whitespace unit wider than the usable width.
C27_NoWideFirstUnit ==
    best_font_size > 0 =>
        \A l \in 1..Len(final_renderable_lines_layout) :
            ~StartsTooWide(final_renderable_lines_layout[l])

\* what lines 422-426 do give: the first unit of a logical line is never such a unit
FirstOfLogicalLineFits ==
    best_font_size > 0 =>
        \A l \in 1..Len(final_renderable_lines_layout) :
            LET entry == final_renderable_lines_layout[l]
            IN StartsTooWide(entry) =>
                  /\ l > 1
                  /\ ~final_renderable_lines_layout[l - 1].empty
                  /\ sum_widths(final_renderable_lines_layout[l - 1].segments)
                        + entry.segments[1].width > usable_width

\* the renderer has visited every entry of an accepted layout
BlockDrawn == pc = "compose" /\ best_font_size > 0

\* the block starts at or below the top margin and ends at or above the bottom one
BlockInsideMargins ==
    /\ lines_drawn # <<>> => lines_drawn[1].y >= margin_top_px
    /\ current_y <= bg_height - margin_bottom_px

\* C26: for every accepted layout (best_font_size > 0), blank-line placeholders
\* included, the y position reached after the last line is at most
\* bg_height - margin_bottom_px and the first line starts at or below
\* margin_top_px.
C26_BlockInsideBand == BlockDrawn => BlockInsideMargins

\* what the renderer does give: a block without a blank line stays inside
BlockInsideBandWithoutBlankLines ==
    (BlockDrawn /\ ~HasPlaceholder) => BlockInsideMargins

----------------------------------------------------------------------------
(* The caption pipeline: blank lines *)

\* ascent + descent of the Regular face at a size
RegularHeight(size) ==
    LET m == getmetrics(profile, [loaded |-> TRUE, face |-> "Regular", size |-> size])
    IN m[1] + m[2]

\* the evaluation of the first k logical lines at a size
EvaluatedUpTo(k, size) ==
    evaluate_size(SubSeq(logical_lines_styled, 1, k), size, usable_width, profile)

\* every empty LogicalLine the evaluation reaches adds the Regular height to the sum
\* and one empty marker behind the entries of the lines before it
PlaceholderEvaluated(size) ==
    \A k \in 1..Len(logical_lines_styled) :
        (logical_lines_styled[k] = <<>> /\ EvaluatedUpTo(k - 1, size).possible) =>
            /\ EvaluatedUpTo(k, size).total
                  = EvaluatedUpTo(k - 1, size).total + RegularHeight(size)
            /\ EvaluatedUpTo(k, size).lines
                  = Append(EvaluatedUpTo(k - 1, size).lines, EmptyMarker)

\* the layout without its empty markers
WithoutBlankLines(layout) == SelectSeq(layout, LAMBDA entry : ~entry.empty)

\* the number of empty markers before entry l
BlankLinesBefore(layout, l) == Cardinality({j \in 1..(l - 1) : layout[j].empty})

\* lines 487-497 and 543: where the renderer draws the l-th entry of a layout that
\* holds RenderLines only
y_of_line(layout, l) ==
    margin_top_px
    + padding_top_final_of(sum_heights(layout), available_height_for_text)
    + sum_heights(SubSeq(layout, 1, l - 1))

\* the position the renderer reached after entry l
PositionAfter(l) ==
    IF l < Len(lines_drawn) THEN lines_drawn[l + 1].y ELSE current_y

\* C24: in the per-size evaluation every empty LogicalLine adds exactly the
\* Regular-face ascent+descent at the candidate size to the summed height and one
\* empty marker at its position in the layout; when rendering, each empty marker
\* advances the line y position by the Regular-face ascent+descent at the chosen
\* size, so a line that follows k blank lines is drawn k placeholder heights lower
\* than it would be without them.
C24_BlankLinePlaceholders ==
    /\ profile # "unloadable" =>
          \A size \in 1..MaxProbeSize : PlaceholderEvaluated(size)
    /\ BlockDrawn =>
          LET layout == final_renderable_lines_layout
          IN \A l \in 1..Len(layout) :
                IF layout[l].empty
                THEN PositionAfter(l) = lines_drawn[l].y + RegularHeight(best_font_size)
                ELSE lines_drawn[l].y
                        = y_of_line(WithoutBlankLines(layout),
                                    l - BlankLinesBefore(layout, l))
                          + BlankLinesBefore(layout, l) * RegularHeight(best_font_size)

\* a RenderLine was drawn below a blank line of a height above zero
C24_Witness ==
    /\ BlockDrawn
    /\ RegularHeight(best_font_size) > 0
    /\ \E l \in 1..Len(final_renderable_lines_layout) :
          /\ ~final_renderable_lines_layout[l].empty
          /\ BlankLinesBefore(final_renderable_lines_layout, l) >= 1

----------------------------------------------------------------------------
(* The caption pipeline: the images returned *)

\* the fit search ran and accepted no size
SearchReturnedZero ==
    /\ pc = "returned" /\ best_font_size = 0
    /\ tried = <<[size |-> 1, accepted |-> FALSE]>>

\* C23: when the fit search returns size 0 (no size >= 1 fits) the pipeline
\* returns its two images (the item is a success), the text-only image is fully
\* transparent and the final-combined image is pixel-identical to the
\* background-only image of the request.
C23_NothingFitsNothingDrawn ==
    (pc \in {"layout", "render", "compose", "returned"} /\ best_font_size = 0) =>
        /\ pc # "render" /\ drawn = <<>> /\ underlines = <<>>
        /\ pc = "returned" =>
              /\ fully_transparent(result.text_only)
              /\ result.final_combined = background_only_img_of(result.text_position)

\* a caption with text for which size 1 was refused came back with its images
C23_Witness ==
    /\ SearchReturnedZero
    /\ any_line(logical_lines_styled)
    /\ result.final_combined.layers # <<>>

\* C25 (as claimed): the text-only image of a caption has the dimensions of the
\* caption band (image width x band height) and holds only the drawn glyphs and
\* underlines, every other pixel being fully transparent.
C25_TextOnlyIsBand ==
    pc = "returned" =>
        /\ result.text_only.width = width
        /\ result.text_only.height = bg_height
        /\ result.text_only.base = "transparent"

\* what lines 545-551 do give: a transparent image of the size of the whole image
\* that holds the band, with the draw calls and nothing else on it, at its position
TextOnlyIsImageWithBand ==
    pc = "returned" =>
        /\ result.text_only.width = width
        /\ result.text_only.height = height
        /\ result.text_only.base = "transparent"
        /\ result.text_only.layers
              = <<[kind |-> "paste",
                   source |-> draw_on(NewImage(width, bg_height, "transparent"),
                                      drawn, underlines),
                   at |-> IF result.text_position = "bottom"
                          THEN <<0, height - bg_height>> ELSE <<0, 0>>]>>

====
